---- MODULE Spec2Model ----
(***************************************************************************)
(* Model of the git branching / release-flow automation of tasks/git.py   *)
(* (class GitFlow and the invoke tasks built on it).                       *)
(*                                                                         *)
(* A branch name is the sequence of its "/"-separated segments:            *)
(* "feat/login" is <<"feat", "login">>, so prefixing is concatenation and  *)
(* str.startswith("feat/") is a test of the first segment.                 *)
(* A commit is the set of changes its tree contains; a merge is the union. *)
(* The repository (git) and the hosting CLI (gh) are the collaborators the *)
(* tasks drive through c.run: a command run without warn=True raises on a  *)
(* non-zero exit and ends the invocation.                                  *)
(***************************************************************************)
EXTENDS Integers, Sequences, FiniteSets, TLC

\* Number of distinct changes that may be committed (locally or on origin).
NChanges == 3

\* Number of task invocations in one behaviour.
MaxRuns == 2

VARIABLES
    cur,        \* the checked-out branch (git rev-parse --abbrev-ref HEAD)
    local,      \* local branch list: branch name -> commit
    remote,     \* branches on origin: branch name -> commit
    merging,    \* a merge is in progress in the working tree (MERGE_HEAD)
    dirty,      \* git status --porcelain is non-empty because of file changes
    prs,        \* pull requests opened on the hosting platform
    tags,       \* local tags: tag name -> commit
    rtags,      \* tags on origin: tag name -> commit
    files,      \* the versioned files of the working tree
    call,       \* arguments and result of a helper called on its own
    other,      \* the saved context of a second, concurrent invocation
    nextChange, \* the next fresh change
    runs,       \* the number of invocations so far
    pc,         \* position of the running invocation
    exit_at,    \* the position at which the invocation terminated
    flow,       \* arguments and locals of the running flow
    mt,         \* arguments and locals of merge_test
    sf,         \* arguments of switch_from
    trace,      \* the commands the invocation has issued, in order
    entry       \* the repository as the invocation found it

vars == <<cur, local, remote, merging, dirty, prs, tags, rtags, files, call, other,
         nextChange, runs,
          pc, exit_at, flow, mt, sf, trace, entry>>

-----------------------------------------------------------------------------
(* Module constants of tasks/git.py *)

dev_branch == <<"dev">>
main_branch == <<"main">>
branch_prefix_feature == <<"feat">>
branch_prefix_bugfix == <<"fix">>
branch_prefix_pr == <<"pr">>
branch_prefix_temp == <<"temp">>

\* The text git prints for a merge that needs no manual resolution.
MERGE_MARKER == "Automatic merge went well"

\* Task identifiers the operator may pass on the command line.
TaskNames == {<<"login">>}

\* Values of flow_finish's task_type parameter.
TaskTypes == {"feature", "fix", "chore"}

-----------------------------------------------------------------------------
(* Branch-name derivation *)

\* Variant: only the last segment of the identifier is kept.
get_feature_branch_name_last(feature_name) ==
    branch_prefix_feature \o <<feature_name[Len(feature_name)]>>

get_feature_branch_name(feature_name) == branch_prefix_feature \o feature_name

get_fix_branch_name(fix_name) == branch_prefix_bugfix \o fix_name

get_pull_request_branch(feature_branch) == branch_prefix_pr \o feature_branch

\* Variant: the trial merge is run on head itself.
tmp_head_is_head(head) == head

tmp_head_name(head) == branch_prefix_temp \o head

StartsWith(branch_name, prefix) ==
    /\ Len(branch_name) > Len(prefix)
    /\ SubSeq(branch_name, 1, Len(prefix)) = prefix

\* Variant: every branch passes for a task branch.
is_any_branch(branch_name) == Len(branch_name) >= 0

is_feature_branch(branch_name) == StartsWith(branch_name, branch_prefix_feature)

is_fix_branch(branch_name) == StartsWith(branch_name, branch_prefix_bugfix)

\* The last segments of ref are exactly those of pattern.
EndsWith(ref, pattern) ==
    /\ Len(ref) >= Len(pattern)
    /\ SubSeq(ref, Len(ref) - Len(pattern) + 1, Len(ref)) = pattern

-----------------------------------------------------------------------------
(* The version-control collaborator *)

SetBranch(l, b, c) == [x \in DOMAIN l \cup {b} |-> IF x = b THEN c ELSE l[x]]

DelBranch(l, b) == [x \in DOMAIN l \ {b} |-> l[x]]

\* Two changes touch the same lines.
Overlap(x, y) == x # y /\ x % 2 = y % 2

\* Merging commits a and b needs manual resolution.
HasConflict(a, b) == \E x \in a \ b, y \in b \ a : Overlap(x, y)

\* The working state a git command reads and writes.
Here == [cur |-> cur, local |-> local, merging |-> merging]

Ok(s) == [ok |-> TRUE, cur |-> s.cur, local |-> s.local, merging |-> s.merging]

Raise(s) == [ok |-> FALSE, cur |-> s.cur, local |-> s.local, merging |-> s.merging]

\* A switch is refused while a merge is in progress, and may be refused
\* when local changes would be overwritten by the other branch's tree.
SwitchRefused(s, target) ==
    IF s.merging THEN {Raise(s)}
    ELSE IF dirty /\ target # s.local[s.cur] THEN {Raise(s)}
    ELSE {}

\* Variant: git reports success but stays on the checked-out branch.
git_switch_stays(b, s) == {Ok(s)}

\* git switch <b>
git_switch(b, s) ==
    IF s.merging THEN {Raise(s)}
    ELSE SwitchRefused(s, s.local[b]) \cup {Ok([s EXCEPT !.cur = b])}

\* git switch --track origin/<b>
git_switch_track(b, s) ==
    IF s.merging \/ b \notin DOMAIN remote THEN {Raise(s)}
    ELSE SwitchRefused(s, remote[b])
         \cup {Ok([s EXCEPT !.cur = b, !.local = SetBranch(s.local, b, remote[b])])}

\* Variant: the branch is created but not checked out (git branch <b>).
git_branch_create(b, s) ==
    IF s.merging THEN {Raise(s)}
    ELSE {Ok([s EXCEPT !.local = SetBranch(s.local, b, s.local[s.cur])])}

\* git switch -c <b>
git_switch_create(b, s) ==
    IF s.merging THEN {Raise(s)}
    ELSE {Ok([s EXCEPT !.cur = b, !.local = SetBranch(s.local, b, s.local[s.cur])])}

\* git pull origin <b> into the checked-out branch. The transfer may fail;
\* a missing remote ref and a merge in progress fail; otherwise the remote
\* commit is merged in: nothing to do, fast-forward, merge, or conflict.
git_pull_origin(b, s) ==
    {Raise(s)} \cup
    IF b \notin DOMAIN remote \/ s.merging THEN {}
    ELSE LET r == remote[b]
             h == s.local[s.cur]
         IN IF r \subseteq h THEN {Ok(s)}
            ELSE IF h \subseteq r THEN {Ok([s EXCEPT !.local[s.cur] = r])}
            ELSE IF HasConflict(r, h) THEN {Raise([s EXCEPT !.merging = TRUE])}
            ELSE {Ok([s EXCEPT !.local[s.cur] = h \cup r])}

\* git ls-remote --heads origin <pattern> prints the heads of origin whose
\* trailing path components match the pattern.
ls_remote_heads(pattern) == {r \in DOMAIN remote : EndsWith(r, pattern)}

remote_exists(branch_name) == ls_remote_heads(branch_name) # {}

git_switch_branch(branch_name) ==
    LET exists_locally == branch_name \in DOMAIN local
        switched == IF exists_locally THEN git_switch(branch_name, Here)
                    ELSE IF remote_exists(branch_name)
                    THEN git_switch_track(branch_name, Here)
                    ELSE git_switch_create(branch_name, Here)
    IN {Raise(Here)} \cup
       UNION { IF s.ok /\ exists_locally /\ remote_exists(branch_name)
               THEN git_pull_origin(branch_name, s)
               ELSE {s} : s \in switched }

\* git merge --no-commit --no-ff <base>, run with warn=True: what it leaves
\* and what it prints on stdout and stderr.
TrialResult(s, kind, out, err) ==
    [cur |-> s.cur, local |-> s.local, merging |-> s.merging,
     kind |-> kind, stdout |-> out, stderr |-> err]

git_merge_no_commit(base, s) ==
    IF base \notin DOMAIN s.local
    THEN {TrialResult(s, "other", <<>>, <<"merge: not something we can merge">>)}
    ELSE LET b == s.local[base]
             h == s.local[s.cur]
         IN IF b \subseteq h
            THEN {TrialResult(s, "uptodate", <<"Already up to date.">>, <<>>)}
            ELSE IF HasConflict(b, h)
            THEN {TrialResult([s EXCEPT !.merging = TRUE], "conflict",
                     <<"CONFLICT (content): Merge conflict",
                       "Automatic merge failed; fix conflicts and then commit the result.">>,
                     <<>>)}
            ELSE {TrialResult([s EXCEPT !.merging = TRUE], "clean",
                     <<MERGE_MARKER, "; stopped before committing as requested">>, <<>>)}
                 \cup (IF dirty
                       THEN {TrialResult(s, "other", <<>>,
                                <<"error: Your local changes would be overwritten by merge.">>)}
                       ELSE {})

\* git merge --abort, run with warn=True
git_merge_abort(s) == [s EXCEPT !.merging = FALSE]

\* git branch -D <b>, run with warn=True: a checked-out or missing branch
\* is not deleted and the failure is swallowed.
can_delete(branch_name, s) ==
    branch_name \in DOMAIN s.local /\ branch_name # s.cur

branch_delete(branch_name, s) ==
    IF can_delete(branch_name, s)
    THEN [s EXCEPT !.local = DelBranch(s.local, branch_name)]
    ELSE s

\* Python's `marker in output`, output being a sequence of text fragments.
Contains(marker, output) == \E i \in 1..Len(output) : output[i] = marker

-----------------------------------------------------------------------------
(* Bookkeeping of an invocation *)

Ev(op, arg, ok) == [op |-> op, arg |-> arg, ok |-> ok]

NoFlow == [kind |-> "none", task_type |-> "", pr_title |-> FALSE,
           task_branch |-> <<>>, pr_branch |-> <<>>,
           increment |-> "", new_version |-> "", release_branch |-> <<>>,
           tmp_main_branch |-> <<>>, answer |-> <<>>]

NoMt == [base |-> <<>>, head |-> <<>>, tmp_head |-> <<>>, output |-> <<>>,
         kind |-> "", pre |-> <<>>, ret |-> ""]

NoSf == [base |-> <<>>, new |-> <<>>, ret |-> ""]

NoEntry == [cur |-> <<>>, local |-> <<>>, remote |-> <<>>, prs |-> {}, tags |-> <<>>,
            rtags |-> <<>>]

\* "exit0" is sys.exit(0), which only tasks/release.py uses.
Terminal == {"done", "exit0", "exit1", "raised"}

\* The versioned files as a fresh clone has them: README.md is a list of
\* lines, pyproject.toml holds the version, CHANGELOG.md is as committed.
NoFiles == [readme |-> <<>>, readme_exists |-> FALSE, version |-> "",
            changelog |-> FALSE]

NoCall == [fn |-> "none"]

NoOther == [pc |-> "idle", exit_at |-> "", flow |-> NoFlow, mt |-> NoMt,
            sf |-> NoSf, trace |-> <<>>, entry |-> NoEntry, overlap |-> FALSE,
            yields |-> 0]

\* A clone of origin in which work on the feature "login" has been started.
Init ==
    /\ cur = get_feature_branch_name(<<"login">>)
    /\ local = (dev_branch :> {}) @@ (main_branch :> {})
               @@ (get_feature_branch_name(<<"login">>) :> {})
    /\ runs = 0
    /\ remote = (dev_branch :> {}) @@ (main_branch :> {})
    /\ merging = FALSE
    /\ dirty = FALSE
    /\ prs = {}
    /\ tags = <<>>
    /\ rtags = <<>>
    /\ files = NoFiles
    /\ call = NoCall
    /\ other = NoOther
    /\ nextChange = 1
    /\ pc = "idle"
    /\ exit_at = ""
    /\ flow = NoFlow
    /\ mt = NoMt
    /\ sf = NoSf
    /\ trace = <<>>
    /\ entry = NoEntry

\* The effect of a command that raises on failure.
Run(o, op, arg, next) ==
    /\ cur' = o.cur
    /\ local' = o.local
    /\ merging' = o.merging
    /\ trace' = Append(trace, Ev(op, arg, o.ok))
    /\ pc' = IF o.ok THEN next ELSE "raised"
    /\ exit_at' = IF o.ok THEN exit_at ELSE pc

\* The effect of a command run with warn=True: its failure is not raised.
RunWarn(s, op, arg, ok, next) ==
    /\ cur' = s.cur
    /\ local' = s.local
    /\ merging' = s.merging
    /\ trace' = Append(trace, Ev(op, arg, ok))
    /\ pc' = next
    /\ exit_at' = exit_at

\* sys.exit(1)
Exit1 ==
    /\ pc' = "exit1"
    /\ exit_at' = pc

-----------------------------------------------------------------------------
(* GitFlow.merge_test *)

MtSwitchHead ==
    /\ pc = "mt_switch_head"
    /\ \E o \in git_switch_branch(mt.head) : Run(o, "switch", mt.head, "mt_pull")
    /\ mt' = [mt EXCEPT !.pre = local]
    /\ UNCHANGED <<remote, dirty, prs, tags, rtags, files, call, other, nextChange, runs, flow, sf, entry>>

MtPull ==
    /\ pc = "mt_pull"
    /\ \E o \in git_pull_origin(mt.head, Here) : Run(o, "pull", mt.head, "mt_switch_tmp")
    /\ UNCHANGED <<remote, dirty, prs, tags, rtags, files, call, other, nextChange, runs, flow, mt, sf, entry>>

MtSwitchTmp ==
    /\ pc = "mt_switch_tmp"
    /\ \E o \in git_switch_branch(mt.tmp_head) :
          Run(o, "switch", mt.tmp_head, "mt_trial")
    /\ UNCHANGED <<remote, dirty, prs, tags, rtags, files, call, other, nextChange, runs, flow, mt, sf, entry>>

MtTrial ==
    /\ pc = "mt_trial"
    /\ \E r \in git_merge_no_commit(mt.base, Here) :
          /\ RunWarn(r, "trial_merge", mt.base, r.kind \in {"clean", "uptodate"},
                     "mt_abort")
          /\ mt' = [mt EXCEPT !.output = r.stdout \o r.stderr, !.kind = r.kind]
    /\ UNCHANGED <<remote, dirty, prs, tags, rtags, files, call, other, nextChange, runs, flow, sf, entry>>

MtAbort ==
    /\ pc = "mt_abort"
    /\ RunWarn(git_merge_abort(Here), "merge_abort", <<>>, merging, "mt_switch_base")
    /\ UNCHANGED <<remote, dirty, prs, tags, rtags, files, call, other, nextChange, runs, flow, mt, sf, entry>>

\* Variant: the probe switches back to head instead of base.
MtSwitchBaseToHead ==
    /\ pc = "mt_switch_base"
    /\ \E o \in git_switch_branch(mt.head) : Run(o, "switch", mt.base, "mt_delete")
    /\ UNCHANGED <<remote, dirty, prs, tags, rtags, files, call, other, nextChange, runs, flow, mt, sf, entry>>

MtSwitchBase ==
    /\ pc = "mt_switch_base"
    /\ \E o \in git_switch_branch(mt.base) : Run(o, "switch", mt.base, "mt_delete")
    /\ UNCHANGED <<remote, dirty, prs, tags, rtags, files, call, other, nextChange, runs, flow, mt, sf, entry>>

MtDelete ==
    /\ pc = "mt_delete"
    /\ RunWarn(branch_delete(mt.tmp_head, Here), "delete", mt.tmp_head,
               can_delete(mt.tmp_head, Here), "mt_decide")
    /\ UNCHANGED <<remote, dirty, prs, tags, rtags, files, call, other, nextChange, runs, flow, mt, sf, entry>>

\* Variant: the probe reports failure but does not exit.
MtDecideIgnoresOutput ==
    /\ pc = "mt_decide"
    /\ pc' = mt.ret
    /\ exit_at' = exit_at
    /\ trace' = Append(trace, Ev("probe", mt.head, Contains(MERGE_MARKER, mt.output)))
    /\ UNCHANGED <<cur, local, remote, merging, dirty, prs, tags, rtags, files, call, other, nextChange, runs,
                   flow, mt, sf, entry>>

MtDecide ==
    /\ pc = "mt_decide"
    /\ IF Contains(MERGE_MARKER, mt.output)
       THEN /\ pc' = mt.ret
            /\ exit_at' = exit_at
            /\ trace' = Append(trace, Ev("probe", mt.head, TRUE))
       ELSE /\ Exit1
            /\ trace' = Append(trace, Ev("probe", mt.head, FALSE))
    /\ UNCHANGED <<cur, local, remote, merging, dirty, prs, tags, rtags, files, call, other, nextChange, runs,
                   flow, mt, sf, entry>>

-----------------------------------------------------------------------------
(* Further collaborators: merge, push, the CI task runner, the hosting CLI *)

\* git merge --ff <head> into the checked-out branch (git_merge, no message)
git_merge(head, s) ==
    IF head \notin DOMAIN s.local \/ s.merging THEN {Raise(s)}
    ELSE LET b == s.local[head]
             h == s.local[s.cur]
         IN IF b \subseteq h THEN {Ok(s)}
            ELSE IF HasConflict(b, h) THEN {Raise([s EXCEPT !.merging = TRUE])}
            ELSE {Ok([s EXCEPT !.local[s.cur] = h \cup b])}
                 \cup (IF dirty THEN {Raise(s)} ELSE {})

\* git push origin <branch>: the remote commits it may leave. The transfer
\* may fail, and a push that is not a fast-forward is rejected.
git_push(branch) ==
    {[ok |-> FALSE, remote |-> remote]} \cup
    IF /\ branch \in DOMAIN local
       /\ (branch \in DOMAIN remote => remote[branch] \subseteq local[branch])
    THEN {[ok |-> TRUE, remote |-> SetBranch(remote, branch, local[branch])]}
    ELSE {}

\* ci.dev_ci: the checks pass, or one of them fails. The spell check stages
\* tmp_changelog.md before it runs its hooks and removes it after them.
dev_ci ==
    { [ok |-> TRUE, dirty |-> dirty],
      [ok |-> FALSE, dirty |-> TRUE],
      [ok |-> FALSE, dirty |-> dirty] }

\* gh pr create --head <head> --base <base>
create_pr(head_branch, base_branch) ==
    LET pr == [head |-> head_branch, base |-> base_branch]
    IN {[ok |-> FALSE, prs |-> prs]} \cup
       IF pr \in prs \/ head_branch \notin DOMAIN remote THEN {}
       ELSE {[ok |-> TRUE, prs |-> prs \cup {pr}]}

\* git status --porcelain prints something
has_uncommitted == dirty \/ merging

-----------------------------------------------------------------------------
(* GitFlow.switch_from *)

SfAssert ==
    /\ pc = "sf_assert"
    /\ IF has_uncommitted
       THEN Exit1
       ELSE pc' = "sf_switch_base" /\ exit_at' = exit_at
    /\ trace' = Append(trace, Ev("status", <<>>, ~has_uncommitted))
    /\ UNCHANGED <<cur, local, remote, merging, dirty, prs, tags, rtags, files, call, other, nextChange, runs,
                   flow, mt, sf, entry>>

SfSwitchBase ==
    /\ pc = "sf_switch_base"
    /\ \E o \in git_switch_branch(sf.base) : Run(o, "switch", sf.base, "sf_pull")
    /\ UNCHANGED <<remote, dirty, prs, tags, rtags, files, call, other, nextChange, runs, flow, mt, sf, entry>>

SfPull ==
    /\ pc = "sf_pull"
    /\ \E o \in git_pull_origin(sf.base, Here) : Run(o, "pull", sf.base, "sf_switch_new")
    /\ UNCHANGED <<remote, dirty, prs, tags, rtags, files, call, other, nextChange, runs, flow, mt, sf, entry>>

\* Variant: the working branch is not switched to.
SfSwitchNewSkipped ==
    /\ pc = "sf_switch_new"
    /\ Run(Ok(Here), "switch", sf.new, sf.ret)
    /\ UNCHANGED <<remote, dirty, prs, tags, rtags, files, call, other, nextChange, runs, flow, mt, sf, entry>>

SfSwitchNew ==
    /\ pc = "sf_switch_new"
    /\ \E o \in git_switch_branch(sf.new) : Run(o, "switch", sf.new, sf.ret)
    /\ UNCHANGED <<remote, dirty, prs, tags, rtags, files, call, other, nextChange, runs, flow, mt, sf, entry>>

-----------------------------------------------------------------------------
(* Task entry points *)

Enter ==
    /\ pc = "idle"
    /\ runs < MaxRuns
    /\ runs' = runs + 1
    /\ trace' = <<>>
    /\ entry' = [cur |-> cur, local |-> local, remote |-> remote, prs |-> prs,
                 tags |-> tags, rtags |-> rtags]

\* flow_feature_start / flow_fix_start
FlowStart ==
    /\ Enter
    /\ \E name \in TaskNames, kind \in {"feature", "fix"} :
          /\ flow' = [NoFlow EXCEPT !.kind = "start", !.task_type = kind]
          /\ sf' = [base |-> dev_branch,
                    new |-> IF kind = "feature" THEN get_feature_branch_name(name)
                                                ELSE get_fix_branch_name(name),
                    ret |-> "done"]
    /\ pc' = "sf_assert"
    /\ UNCHANGED <<cur, local, remote, merging, dirty, prs, tags, rtags, files, call, other, nextChange, exit_at, mt>>

\* GitFlow.flow_finish, up to the call of merge_test
FlowFinish ==
    /\ Enter
    /\ \E task_type \in TaskTypes, pr_title \in BOOLEAN :
          LET task_branch == cur
              pr_branch == get_pull_request_branch(task_branch)
              valid == IF task_type = "feature" THEN is_feature_branch(task_branch)
                       ELSE IF task_type = "fix" THEN is_fix_branch(task_branch)
                       ELSE FALSE
          IN /\ flow' = [NoFlow EXCEPT !.kind = "finish", !.task_type = task_type,
                                !.pr_title = pr_title, !.task_branch = task_branch,
                                !.pr_branch = pr_branch]
             /\ IF valid
                THEN /\ pc' = "mt_switch_head"
                     /\ exit_at' = exit_at
                     /\ mt' = [NoMt EXCEPT !.base = task_branch, !.head = dev_branch,
                                           !.tmp_head = tmp_head_name(dev_branch),
                                           !.ret = "sf_assert"]
                     /\ sf' = [base |-> dev_branch, new |-> pr_branch, ret |-> "ff_check"]
                ELSE /\ Exit1
                     /\ UNCHANGED <<mt, sf>>
    /\ UNCHANGED <<cur, local, remote, merging, dirty, prs, tags, rtags, files, call, other, nextChange>>

-----------------------------------------------------------------------------
(* GitFlow.flow_finish, after switch_from *)

FfCheck ==
    /\ pc = "ff_check"
    /\ IF cur # flow.pr_branch
       THEN Exit1
       ELSE pc' = "ff_merge_task" /\ exit_at' = exit_at
    /\ UNCHANGED <<cur, local, remote, merging, dirty, prs, tags, rtags, files, call, other, nextChange, runs,
                   flow, mt, sf, trace, entry>>

\* Variant: the flow goes on to land the change without running CI.
FfMergeTaskSkipsCi ==
    /\ pc = "ff_merge_task"
    /\ \E o \in git_merge(flow.task_branch, Here) :
          Run(o, "merge", flow.task_branch,
              IF flow.pr_title THEN "ff_push_pr" ELSE "ff_switch_dev")
    /\ UNCHANGED <<remote, dirty, prs, tags, rtags, files, call, other, nextChange, runs, flow, mt, sf, entry>>

FfMergeTask ==
    /\ pc = "ff_merge_task"
    /\ \E o \in git_merge(flow.task_branch, Here) :
          Run(o, "merge", flow.task_branch, "ff_ci")
    /\ UNCHANGED <<remote, dirty, prs, tags, rtags, files, call, other, nextChange, runs, flow, mt, sf, entry>>

\* Variant: a failing CI run does not stop the flow.
FfCiContinues ==
    /\ pc = "ff_ci"
    /\ \E o \in dev_ci :
          /\ dirty' = o.dirty
          /\ trace' = Append(trace, Ev("ci", <<>>, o.ok))
          /\ pc' = IF flow.pr_title THEN "ff_push_pr" ELSE "ff_switch_dev"
          /\ exit_at' = exit_at
    /\ UNCHANGED <<cur, local, remote, merging, prs, tags, rtags, files, call, other, nextChange, runs, flow, mt, sf, entry>>

FfCi ==
    /\ pc = "ff_ci"
    /\ \E o \in dev_ci :
          /\ dirty' = o.dirty
          /\ trace' = Append(trace, Ev("ci", <<>>, o.ok))
          /\ pc' = IF ~o.ok THEN "raised"
                   ELSE IF flow.pr_title THEN "ff_push_pr" ELSE "ff_switch_dev"
          /\ exit_at' = IF o.ok THEN exit_at ELSE pc
    /\ UNCHANGED <<cur, local, remote, merging, prs, tags, rtags, files, call, other, nextChange, runs, flow, mt, sf, entry>>

\* Variant: the flow merges and pushes without switching to dev.
FfSwitchDevSkipped ==
    /\ pc = "ff_switch_dev"
    /\ Run(Ok(Here), "switch", dev_branch, "ff_merge_pr")
    /\ UNCHANGED <<remote, dirty, prs, tags, rtags, files, call, other, nextChange, runs, flow, mt, sf, entry>>

FfSwitchDev ==
    /\ pc = "ff_switch_dev"
    /\ \E o \in git_switch_branch(dev_branch) :
          Run(o, "switch", dev_branch, "ff_merge_pr")
    /\ UNCHANGED <<remote, dirty, prs, tags, rtags, files, call, other, nextChange, runs, flow, mt, sf, entry>>

FfMergePr ==
    /\ pc = "ff_merge_pr"
    /\ \E o \in git_merge(flow.pr_branch, Here) :
          Run(o, "merge", flow.pr_branch, "ff_push_dev")
    /\ UNCHANGED <<remote, dirty, prs, tags, rtags, files, call, other, nextChange, runs, flow, mt, sf, entry>>

Push(branch, next) ==
    \E o \in git_push(branch) :
       /\ remote' = o.remote
       /\ trace' = Append(trace, Ev("push", branch, o.ok))
       /\ pc' = IF o.ok THEN next ELSE "raised"
       /\ exit_at' = IF o.ok THEN exit_at ELSE pc

FfPushDev ==
    /\ pc = "ff_push_dev"
    /\ Push(dev_branch, "ff_delete_pr")
    /\ UNCHANGED <<cur, local, merging, dirty, prs, tags, rtags, files, call, other, nextChange, runs, flow, mt, sf, entry>>

FfPushPr ==
    /\ pc = "ff_push_pr"
    /\ Push(flow.pr_branch, "ff_gh_auth")
    /\ UNCHANGED <<cur, local, merging, dirty, prs, tags, rtags, files, call, other, nextChange, runs, flow, mt, sf, entry>>

\* GithubCli.assert_github_cli
FfGhAuth ==
    /\ pc = "ff_gh_auth"
    /\ \E authenticated \in BOOLEAN :
          /\ IF authenticated
             THEN pc' = "ff_create_pr" /\ exit_at' = exit_at
             ELSE Exit1
          /\ trace' = Append(trace, Ev("gh_auth", <<>>, authenticated))
    /\ UNCHANGED <<cur, local, remote, merging, dirty, prs, tags, rtags, files, call, other, nextChange, runs,
                   flow, mt, sf, entry>>

FfCreatePr ==
    /\ pc = "ff_create_pr"
    /\ \E o \in create_pr(flow.pr_branch, dev_branch) :
          /\ prs' = o.prs
          /\ trace' = Append(trace, Ev("pr_create", flow.pr_branch, o.ok))
          /\ pc' = IF o.ok THEN "ff_delete_pr" ELSE "raised"
          /\ exit_at' = IF o.ok THEN exit_at ELSE pc
    /\ UNCHANGED <<cur, local, remote, merging, dirty, tags, rtags, files, call, other, nextChange, runs, flow, mt,
                   sf, entry>>

FfDeletePr ==
    /\ pc = "ff_delete_pr"
    /\ RunWarn(branch_delete(flow.pr_branch, Here), "delete", flow.pr_branch,
               can_delete(flow.pr_branch, Here), "ff_delete_task")
    /\ UNCHANGED <<remote, dirty, prs, tags, rtags, files, call, other, nextChange, runs, flow, mt, sf, entry>>

FfDeleteTask ==
    /\ pc = "ff_delete_task"
    /\ RunWarn(branch_delete(flow.task_branch, Here), "delete", flow.task_branch,
               can_delete(flow.task_branch, Here), "done")
    /\ UNCHANGED <<remote, dirty, prs, tags, rtags, files, call, other, nextChange, runs, flow, mt, sf, entry>>

-----------------------------------------------------------------------------
(* Versions, tags and the release branch *)

branch_prefix_release == <<"release">>

BUMP_VERSION_PROVIDER == "commitizen"

\* Increments the operator may pass to the release tasks.
Increments == {"patch", "prerelease"}

valid_types(provider) ==
    IF provider = "poetry"
    THEN {"patch", "minor", "major", "prepatch", "preminor", "premajor", "prerelease"}
    ELSE IF provider = "commitizen" THEN {"patch", "minor", "major"}
    ELSE {}

\* Variant: an unknown provider is reported like an invalid version type.
assert_version_type_exits(version_type, provider) ==
    IF version_type \notin valid_types(provider) THEN "exit1" ELSE "ok"

\* "ok" on normal return, "exit1" for sys.exit(1), "raise" for ValueError.
assert_version_type(version_type, provider) ==
    IF provider \notin {"poetry", "commitizen"} THEN "raise"
    ELSE IF version_type \notin valid_types(provider) THEN "exit1"
    ELSE "ok"

\* A version bump is a change of its own, numbered below zero: the n-th
\* release of the project is the change -n. The version recorded in the
\* project metadata of a commit is the latest bump the commit contains.
VersionOf(commit) ==
    LET bumps == {0 - x : x \in {y \in commit : y < 0}}
    IN IF bumps = {} THEN 0 ELSE CHOOSE m \in bumps : \A k \in bumps : k <= m

BumpChange(commit) == 0 - (VersionOf(commit) + 1)

\* poetry version --short
get_current_version(s) == "0.1." \o ToString(VersionOf(s.local[s.cur]))

\* poetry version patch --dry-run --short
get_new_pip_version(s) == "0.1." \o ToString(VersionOf(s.local[s.cur]) + 1)

get_new_version(s) == "v" \o get_new_pip_version(s)

get_release_branch_name(version) == branch_prefix_release \o <<version>>

tmp_main_branch_name(version) == <<"temp_" \o version>> \o main_branch

\* git tag <version>: refused when the tag exists.
git_tag(version, s) ==
    IF version \in DOMAIN tags
    THEN [ok |-> FALSE, tags |-> tags]
    ELSE [ok |-> TRUE, tags |-> (version :> s.local[s.cur]) @@ tags]

\* bump_version: the changelog and the project metadata are rewritten, then
\* the README marker. A failing tool raises, a README without the marker
\* exits; either may leave rewritten files behind.
bump_version ==
    { [end |-> "ok", dirty |-> TRUE],
      [end |-> "raised", dirty |-> dirty],
      [end |-> "raised", dirty |-> TRUE],
      [end |-> "exit1", dirty |-> TRUE] }

\* git add of the three files and git commit: the commit may be rejected
\* by a hook.
git_commit_bump(s) ==
    {Raise(s), Ok([s EXCEPT !.local[s.cur] = @ \cup {BumpChange(@)}])}

\* git merge --no-ff <head> -m <message>
git_merge_no_ff(head, s) == git_merge(head, s)

\* git merge --squash <head>: the merged tree is staged, not committed;
\* a conflict leaves unmerged files in the working tree.
git_merge_squash(head, s) ==
    IF head \notin DOMAIN s.local \/ s.merging THEN {"raised"}
    ELSE IF HasConflict(s.local[head], s.local[s.cur]) THEN {"conflict"}
    ELSE {"staged"}

-----------------------------------------------------------------------------
(* The interactive gate: input().strip().lower() != "y" *)

Whitespace == {" ", "\t"}

RECURSIVE lstrip(_)
lstrip(a) == IF a # <<>> /\ Head(a) \in Whitespace THEN lstrip(Tail(a)) ELSE a

RECURSIVE rstrip(_)
rstrip(a) ==
    IF a # <<>> /\ a[Len(a)] \in Whitespace THEN rstrip(SubSeq(a, 1, Len(a) - 1)) ELSE a

strip(a) == rstrip(lstrip(a))

lower(a) == [i \in 1..Len(a) |->
                IF a[i] = "Y" THEN "y"
                ELSE IF a[i] = "N" THEN "n"
                ELSE IF a[i] = "E" THEN "e"
                ELSE IF a[i] = "S" THEN "s"
                ELSE a[i]]

\* What the operator may type at the gate.
Answers == {<<"y">>, <<" ", "Y", "\t">>, <<"n">>, <<>>, <<"y", "e", "s">>,
            <<"y", " ", "y">>}

-----------------------------------------------------------------------------
(* Steps shared by the release flows *)

\* What a step that runs one git command leaves alone.
GitFrame == UNCHANGED <<remote, dirty, prs, tags, rtags, files, call, other, nextChange, runs, flow, mt, sf, entry>>

\* Variant: uncommitted changes are reported but the flow goes on.
AssertCleanNeverExits(next) ==
    /\ pc' = next
    /\ exit_at' = exit_at
    /\ trace' = Append(trace, Ev("status", <<>>, ~has_uncommitted))
    /\ UNCHANGED <<cur, local, remote, merging, dirty, prs, tags, rtags, files, call, other, nextChange, runs,
                   flow, mt, sf, entry>>

\* GitFlow.assert_no_uncommitted
AssertClean(next) ==
    /\ IF has_uncommitted
       THEN Exit1
       ELSE pc' = next /\ exit_at' = exit_at
    /\ trace' = Append(trace, Ev("status", <<>>, ~has_uncommitted))
    /\ UNCHANGED <<cur, local, remote, merging, dirty, prs, tags, rtags, files, call, other, nextChange, runs,
                   flow, mt, sf, entry>>

\* ci.dev_ci called from a flow
CiStep(next) ==
    /\ \E o \in dev_ci :
          /\ dirty' = o.dirty
          /\ trace' = Append(trace, Ev("ci", <<>>, o.ok))
          /\ pc' = IF o.ok THEN next ELSE "raised"
          /\ exit_at' = IF o.ok THEN exit_at ELSE pc
    /\ UNCHANGED <<cur, local, remote, merging, prs, tags, rtags, files, call, other, nextChange, runs, flow, sf, entry>>

\* The arguments and locals of a call of merge_test(base, head).
MtCall(base, head, ret) ==
    [NoMt EXCEPT !.base = base, !.head = head, !.tmp_head = tmp_head_name(head),
                 !.ret = ret]

\* Variant: a release may be started from any branch.
ReleaseBeginAnywhere(kind, first) ==
    /\ Enter
    /\ \E increment \in Increments :
          LET new_version == get_new_version(Here)
          IN /\ flow' = [NoFlow EXCEPT
                            !.kind = kind, !.increment = increment,
                            !.new_version = new_version,
                            !.release_branch = get_release_branch_name(new_version)]
             /\ IF assert_version_type(increment, BUMP_VERSION_PROVIDER) # "ok"
                THEN Exit1
                ELSE pc' = first /\ exit_at' = exit_at
    /\ UNCHANGED <<cur, local, remote, merging, dirty, prs, tags, rtags, files, call, other, nextChange, mt, sf>>

\* The start of flow_release_start and of flow_release_create_pr: the
\* increment is validated, the names are derived, the branch is checked.
ReleaseBegin(kind, first) ==
    /\ Enter
    /\ \E increment \in Increments :
          LET valid == assert_version_type(increment, BUMP_VERSION_PROVIDER) = "ok"
              new_version == get_new_version(Here)
          IN /\ flow' = IF valid
                        THEN [NoFlow EXCEPT
                                !.kind = kind, !.increment = increment,
                                !.new_version = new_version,
                                !.release_branch = get_release_branch_name(new_version),
                                !.tmp_main_branch =
                                    IF kind = "release_pr"
                                    THEN tmp_main_branch_name(new_version) ELSE <<>>]
                        ELSE [NoFlow EXCEPT !.kind = kind, !.increment = increment]
             /\ IF ~valid THEN Exit1
                ELSE IF cur # dev_branch THEN Exit1
                ELSE pc' = first /\ exit_at' = exit_at
    /\ UNCHANGED <<cur, local, remote, merging, dirty, prs, tags, rtags, files, call, other, nextChange, mt, sf>>

RelSwitch ==
    /\ pc = "rel_switch"
    /\ \E o \in git_switch_branch(flow.release_branch) :
          Run(o, "switch", flow.release_branch, "rel_bump")
    /\ GitFrame

RelBump ==
    /\ pc = "rel_bump"
    /\ \E o \in bump_version :
          /\ dirty' = o.dirty
          /\ trace' = Append(trace, Ev("bump", <<>>, o.end = "ok"))
          /\ pc' = IF o.end = "ok" THEN "rel_commit" ELSE o.end
          /\ exit_at' = IF o.end = "ok" THEN exit_at ELSE pc
    /\ UNCHANGED <<cur, local, remote, merging, prs, tags, rtags, files, call, other, nextChange, runs, flow, mt, sf,
                   entry>>

RelCommit ==
    /\ pc = "rel_commit"
    /\ \E o \in git_commit_bump(Here) :
          /\ Run(o, "commit", cur, "rel_gate")
          /\ dirty' = IF o.ok THEN FALSE ELSE dirty
    /\ UNCHANGED <<remote, prs, tags, rtags, files, call, other, nextChange, runs, flow, mt, sf, entry>>

\* The flow blocks on input() until the operator has typed an answer.
RelInput ==
    /\ pc = "rel_gate"
    /\ \E a \in Answers : flow' = [flow EXCEPT !.answer = a]
    /\ pc' = "rel_gate_read"
    /\ UNCHANGED <<cur, local, remote, merging, dirty, prs, tags, rtags, files, call, other, nextChange, runs,
                   exit_at, mt, sf, trace, entry>>

\* Variant: the flow goes on whatever the answer.
RelGateAlwaysContinues ==
    /\ pc = "rel_gate_read"
    /\ LET said == lower(strip(flow.answer))
       IN /\ pc' = IF flow.kind = "release_start" THEN "rs_ci" ELSE "rp_switch_main"
          /\ exit_at' = exit_at
          /\ trace' = Append(trace, Ev("gate", said, said = <<"y">>))
    /\ flow' = [flow EXCEPT !.answer = <<>>]
    /\ UNCHANGED <<cur, local, remote, merging, dirty, prs, tags, rtags, files, call, other, nextChange, runs,
                   mt, sf, entry>>

RelGate ==
    /\ pc = "rel_gate_read"
    /\ LET said == lower(strip(flow.answer))
       IN /\ IF said # <<"y">>
             THEN Exit1
             ELSE /\ pc' = IF flow.kind = "release_start" THEN "rs_ci"
                           ELSE "rp_switch_main"
                  /\ exit_at' = exit_at
          /\ trace' = Append(trace, Ev("gate", said, said = <<"y">>))
    /\ flow' = [flow EXCEPT !.answer = <<>>]
    /\ UNCHANGED <<cur, local, remote, merging, dirty, prs, tags, rtags, files, call, other, nextChange, runs,
                   mt, sf, entry>>

-----------------------------------------------------------------------------
(* GitFlow.flow_release_start *)

FlowReleaseStart == ReleaseBegin("release_start", "rs_pull")

RsPull ==
    /\ pc = "rs_pull"
    /\ \E o \in git_pull_origin(dev_branch, Here) : Run(o, "pull", dev_branch, "rs_assert")
    /\ GitFrame

RsAssert ==
    /\ pc = "rs_assert"
    /\ AssertClean("rel_switch")

\* Variant: CI is run after the release has been merged into dev.
RsCiSkipped ==
    /\ pc = "rs_ci"
    /\ pc' = "mt_switch_head"
    /\ mt' = MtCall(flow.release_branch, dev_branch, "rs_switch_dev")
    /\ UNCHANGED <<cur, local, remote, merging, dirty, prs, tags, rtags, files, call, other, nextChange, runs,
                   exit_at, flow, sf, trace, entry>>

RsCi ==
    /\ pc = "rs_ci"
    /\ CiStep("mt_switch_head")
    /\ mt' = MtCall(flow.release_branch, dev_branch, "rs_switch_dev")

RsSwitchDev ==
    /\ pc = "rs_switch_dev"
    /\ \E o \in git_switch_branch(dev_branch) : Run(o, "switch", dev_branch, "rs_merge_release")
    /\ GitFrame

RsMergeRelease ==
    /\ pc = "rs_merge_release"
    /\ \E o \in git_merge_no_ff(flow.release_branch, Here) :
          Run(o, "merge", flow.release_branch, "mt_switch_head")
    /\ mt' = MtCall(dev_branch, main_branch, "rs_switch_main")
    /\ UNCHANGED <<remote, dirty, prs, tags, rtags, files, call, other, nextChange, runs, flow, sf, entry>>

RsSwitchMain ==
    /\ pc = "rs_switch_main"
    /\ \E o \in git_switch_branch(main_branch) : Run(o, "switch", main_branch, "rs_pull_main")
    /\ GitFrame

RsPullMain ==
    /\ pc = "rs_pull_main"
    /\ \E o \in git_pull_origin(main_branch, Here) : Run(o, "pull", main_branch, "rs_squash")
    /\ GitFrame

RsSquash ==
    /\ pc = "rs_squash"
    /\ \E r \in git_merge_squash(dev_branch, Here) :
          /\ dirty' = IF r = "raised" THEN dirty ELSE TRUE
          /\ trace' = Append(trace, Ev("squash", dev_branch, r = "staged"))
          /\ pc' = IF r = "staged" THEN "rs_commit_main" ELSE "raised"
          /\ exit_at' = IF r = "staged" THEN exit_at ELSE pc
    /\ UNCHANGED <<cur, local, remote, merging, prs, tags, rtags, files, call, other, nextChange, runs, flow, mt, sf,
                   entry>>

\* git commit of the squashed tree: refused when nothing is staged, and a
\* hook may reject it.
RsCommitMain ==
    /\ pc = "rs_commit_main"
    /\ \E ok \in (IF local[dev_branch] \subseteq local[cur] THEN {FALSE} ELSE BOOLEAN) :
          /\ Run(IF ok THEN Ok([Here EXCEPT !.local[cur] = @ \cup local[dev_branch]])
                       ELSE Raise(Here),
                 "commit", cur, "rs_tag")
          /\ dirty' = IF ok THEN FALSE ELSE dirty
    /\ UNCHANGED <<remote, prs, tags, rtags, files, call, other, nextChange, runs, flow, mt, sf, entry>>

\* Variant: the tag is pushed as soon as it is created (git_tag_push).
RsTagPushed ==
    /\ pc = "rs_tag"
    /\ LET o == git_tag(flow.new_version, Here)
       IN /\ tags' = o.tags
          /\ rtags' = IF o.ok THEN (flow.new_version :> o.tags[flow.new_version]) @@ rtags
                      ELSE rtags
          /\ trace' = IF o.ok
                      THEN trace \o <<Ev("tag", <<flow.new_version>>, TRUE),
                                      Ev("push", <<flow.new_version>>, TRUE)>>
                      ELSE Append(trace, Ev("tag", <<flow.new_version>>, FALSE))
          /\ pc' = IF o.ok THEN "rs_switch_back" ELSE "raised"
          /\ exit_at' = IF o.ok THEN exit_at ELSE pc
    /\ UNCHANGED <<cur, local, remote, merging, dirty, prs, files, call, other,
                   nextChange, runs, flow, mt, sf, entry>>

RsTag ==
    /\ pc = "rs_tag"
    /\ LET o == git_tag(flow.new_version, Here)
       IN /\ tags' = o.tags
          /\ trace' = Append(trace, Ev("tag", <<flow.new_version>>, o.ok))
          /\ pc' = IF o.ok THEN "rs_switch_back" ELSE "raised"
          /\ exit_at' = IF o.ok THEN exit_at ELSE pc
    /\ UNCHANGED <<cur, local, remote, merging, dirty, prs, rtags, files, call, other,
                   nextChange, runs, flow, mt, sf, entry>>

\* Variant: the flow stays on main after tagging.
RsSwitchBackSkipped ==
    /\ pc = "rs_switch_back"
    /\ Run(Ok(Here), "switch", dev_branch, "rs_merge_main")
    /\ GitFrame

RsSwitchBack ==
    /\ pc = "rs_switch_back"
    /\ \E o \in git_switch_branch(dev_branch) : Run(o, "switch", dev_branch, "rs_merge_main")
    /\ GitFrame

RsMergeMain ==
    /\ pc = "rs_merge_main"
    /\ \E o \in git_merge_no_ff(main_branch, Here) :
          Run(o, "merge", main_branch, "rs_delete_release")
    /\ GitFrame

RsDeleteRelease ==
    /\ pc = "rs_delete_release"
    /\ RunWarn(branch_delete(flow.release_branch, Here), "delete", flow.release_branch,
               can_delete(flow.release_branch, Here), "done")
    /\ GitFrame

-----------------------------------------------------------------------------
(* GitFlow.flow_release_finish: publish a finished release *)

\* Variant: the branch and the tag travel as two independent updates, so
\* one may be accepted while the other is refused.
git_push_refs_apart(branch, tag) ==
    LET branch_ok == /\ branch \in DOMAIN local
                     /\ (branch \in DOMAIN remote => remote[branch] \subseteq local[branch])
        tag_ok == tag \in DOMAIN tags /\ (tag \in DOMAIN rtags => rtags[tag] = tags[tag])
        pushed == IF branch_ok THEN SetBranch(remote, branch, local[branch]) ELSE remote
        tagged == IF tag_ok THEN (tag :> tags[tag]) @@ rtags ELSE rtags
    IN {[ok |-> FALSE, remote |-> remote, rtags |-> rtags],
        [ok |-> branch_ok /\ tag_ok, remote |-> pushed, rtags |-> tagged],
        [ok |-> FALSE, remote |-> pushed, rtags |-> rtags]}

\* git push origin <branch> --atomic <tag>: the branch and the tag are both
\* accepted or both refused. The push can fail for reasons of its own.
git_push_atomic(branch, tag) ==
    {[ok |-> FALSE, remote |-> remote, rtags |-> rtags]} \cup
    IF /\ branch \in DOMAIN local
       /\ tag \in DOMAIN tags
       /\ (branch \in DOMAIN remote => remote[branch] \subseteq local[branch])
       /\ (tag \in DOMAIN rtags => rtags[tag] = tags[tag])
    THEN {[ok |-> TRUE, remote |-> SetBranch(remote, branch, local[branch]),
           rtags |-> (tag :> tags[tag]) @@ rtags]}
    ELSE {}

FlowReleaseFinish ==
    /\ Enter
    /\ flow' = [NoFlow EXCEPT !.kind = "release_finish"]
    /\ pc' = "rf_assert"
    /\ UNCHANGED <<cur, local, remote, merging, dirty, prs, tags, rtags, files, call, other,
                   nextChange, exit_at, mt, sf>>

\* Variant: uncommitted changes do not stop the publication.
RfAssertNeverExits ==
    /\ pc = "rf_assert"
    /\ AssertCleanNeverExits("rf_tag_list")

RfAssert ==
    /\ pc = "rf_assert"
    /\ AssertClean("rf_tag_list")

\* Variant: a missing tag is reported but the flow goes on to push.
RfTagListContinues ==
    /\ pc = "rf_tag_list"
    /\ LET tag == "v" \o get_current_version(Here)
       IN /\ flow' = [flow EXCEPT !.new_version = tag]
          /\ trace' = Append(trace, Ev("tag_list", <<tag>>, tag \in DOMAIN tags))
          /\ pc' = "rf_push_dev"
          /\ exit_at' = exit_at
    /\ UNCHANGED <<cur, local, remote, merging, dirty, prs, tags, rtags, files, call, other,
                   nextChange, runs, mt, sf, entry>>

\* tag = "v" + get_current_version(); git tag --list {tag}
RfTagList ==
    /\ pc = "rf_tag_list"
    /\ LET tag == "v" \o get_current_version(Here)
       IN /\ flow' = [flow EXCEPT !.new_version = tag]
          /\ trace' = Append(trace, Ev("tag_list", <<tag>>, tag \in DOMAIN tags))
          /\ IF tag \notin DOMAIN tags
             THEN Exit1
             ELSE pc' = "rf_push_dev" /\ exit_at' = exit_at
    /\ UNCHANGED <<cur, local, remote, merging, dirty, prs, tags, rtags, files, call, other,
                   nextChange, runs, mt, sf, entry>>

RfPushDev ==
    /\ pc = "rf_push_dev"
    /\ Push(dev_branch, "rf_push_main")
    /\ UNCHANGED <<cur, local, merging, dirty, prs, tags, rtags, files, call, other,
                   nextChange, runs, flow, mt, sf, entry>>

RfPushMain ==
    /\ pc = "rf_push_main"
    /\ \E o \in git_push_atomic(main_branch, flow.new_version) :
          /\ remote' = o.remote
          /\ rtags' = o.rtags
          /\ trace' = Append(trace, Ev("push", main_branch, o.ok))
          /\ pc' = IF o.ok THEN "done" ELSE "raised"
          /\ exit_at' = IF o.ok THEN exit_at ELSE pc
    /\ UNCHANGED <<cur, local, merging, dirty, prs, tags, files, call, other,
                   nextChange, runs, flow, mt, sf, entry>>

-----------------------------------------------------------------------------
(* The operator and the other users of origin, between invocations *)

\* The process has ended and the operator has the shell back.
Return ==
    /\ pc \in Terminal
    /\ pc' = "idle"
    /\ exit_at' = ""
    /\ flow' = NoFlow
    /\ mt' = NoMt
    /\ sf' = NoSf
    /\ trace' = <<>>
    /\ entry' = NoEntry
    /\ UNCHANGED <<cur, local, remote, merging, dirty, prs, tags, rtags, files, call, other, nextChange, runs>>

\* The operator commits a change on the checked-out task branch.
UserCommit ==
    /\ pc = "idle"
    /\ ~merging
    /\ nextChange <= NChanges
    /\ cur \notin {dev_branch, main_branch}
    /\ local' = [local EXCEPT ![cur] = @ \cup {nextChange}]
    /\ nextChange' = nextChange + 1
    /\ UNCHANGED <<runs, cur, remote, merging, dirty, prs, tags, rtags, files, call, other, pc, exit_at, flow, mt, sf,
                   trace, entry>>

\* Somebody else pushes a change to a branch of origin, before the operator's
\* first invocation.
RemoteCommit ==
    /\ pc = "idle"
    /\ runs = 0
    /\ nextChange <= NChanges
    /\ \E b \in DOMAIN remote \ {main_branch} :
          remote' = [remote EXCEPT ![b] = @ \cup {nextChange}]
    /\ nextChange' = nextChange + 1
    /\ UNCHANGED <<runs, cur, local, merging, dirty, prs, tags, rtags, files, call, other, pc, exit_at, flow, mt, sf,
                   trace, entry>>

\* The operator publishes the checked-out task branch, before the first
\* invocation.
UserPush ==
    /\ pc = "idle"
    /\ runs = 0
    /\ cur \notin {dev_branch, main_branch}
    /\ cur \in DOMAIN remote => remote[cur] \subseteq local[cur]
    /\ remote' = SetBranch(remote, cur, local[cur])
    /\ UNCHANGED <<cur, local, merging, dirty, prs, tags, rtags, files, call, other, nextChange, runs, pc, exit_at, flow,
                   mt, sf, trace, entry>>

\* The operator edits a file, or reverts the edit.
UserEdit ==
    /\ pc = "idle"
    /\ ~merging
    /\ dirty' = ~dirty
    /\ UNCHANGED <<cur, local, remote, merging, prs, tags, rtags, files, call, other, nextChange, runs, pc, exit_at, flow,
                   mt, sf, trace, entry>>

\* The operator checks out another local branch.
UserSwitch ==
    /\ pc = "idle"
    /\ ~merging /\ ~dirty
    /\ \E b \in DOMAIN local \ {cur} : cur' = b
    /\ UNCHANGED <<local, remote, merging, dirty, prs, tags, rtags, files, call, other, nextChange, runs, pc, exit_at, flow,
                   mt, sf, trace, entry>>

\* The operator gives up a merge a failed pull or merge left behind.
UserMergeAbort ==
    /\ pc = "idle"
    /\ merging
    /\ merging' = FALSE
    /\ UNCHANGED <<cur, local, remote, dirty, prs, tags, rtags, files, call, other, nextChange, runs, pc, exit_at, flow,
                   mt, sf, trace, entry>>

\* Before the first invocation the operator deletes the local copy of the
\* development branch, which is not checked out (a later switch re-creates
\* it from origin).
UserDeleteBranch ==
    /\ pc = "idle"
    /\ runs = 0
    /\ cur # dev_branch
    /\ dev_branch \in DOMAIN local
    /\ local' = DelBranch(local, dev_branch)
    /\ UNCHANGED <<cur, remote, merging, dirty, prs, tags, rtags, files, call, other, nextChange, runs, pc, exit_at,
                   flow, mt, sf, trace, entry>>

Next ==
    \/ FlowStart \/ FlowFinish
    \/ MtSwitchHead \/ MtPull \/ MtSwitchTmp \/ MtTrial \/ MtAbort
    \/ MtSwitchBase \/ MtDelete \/ MtDecide
    \/ SfAssert \/ SfSwitchBase \/ SfPull \/ SfSwitchNew
    \/ FfCheck \/ FfMergeTask \/ FfCi \/ FfSwitchDev \/ FfMergePr \/ FfPushDev
    \/ FfPushPr \/ FfGhAuth \/ FfCreatePr \/ FfDeletePr \/ FfDeleteTask
    \/ Return \/ UserCommit \/ RemoteCommit \/ UserPush \/ UserEdit \/ UserSwitch
    \/ UserMergeAbort \/ UserDeleteBranch

Spec == Init /\ [][Next]_vars

\* HEAD is always a local branch, and an exit position is recorded exactly
\* for an invocation that did not complete.
TypeOK ==
    /\ cur \in DOMAIN local
    /\ (pc \in {"exit0", "exit1", "raised"}) <=> (exit_at # "")

-----------------------------------------------------------------------------
(* GitFlow.flow_release_create_pr *)

FlowReleasePr == ReleaseBegin("release_pr", "rp_assert")

RpAssert ==
    /\ pc = "rp_assert"
    /\ AssertClean("rp_pull")

RpPull ==
    /\ pc = "rp_pull"
    /\ \E o \in git_pull_origin(dev_branch, Here) : Run(o, "pull", dev_branch, "rel_switch")
    /\ GitFrame

RpSwitchMain ==
    /\ pc = "rp_switch_main"
    /\ \E o \in git_switch_branch(main_branch) : Run(o, "switch", main_branch, "rp_pull_main")
    /\ GitFrame

RpPullMain ==
    /\ pc = "rp_pull_main"
    /\ \E o \in git_pull_origin(main_branch, Here) :
          Run(o, "pull", main_branch, "rp_switch_tmp")
    /\ GitFrame

\* Variant: the release is merged on main itself, no temporary branch.
RpSwitchTmpSkipped ==
    /\ pc = "rp_switch_tmp"
    /\ Run(Ok(Here), "switch", flow.tmp_main_branch, "rp_merge_release")
    /\ GitFrame

RpSwitchTmp ==
    /\ pc = "rp_switch_tmp"
    /\ \E o \in git_switch_branch(flow.tmp_main_branch) :
          Run(o, "switch", flow.tmp_main_branch, "rp_merge_release")
    /\ GitFrame

RpMergeRelease ==
    /\ pc = "rp_merge_release"
    /\ \E o \in git_merge_no_ff(flow.release_branch, Here) :
          Run(o, "merge", flow.release_branch, "rp_ci")
    /\ GitFrame

RpCi ==
    /\ pc = "rp_ci"
    /\ CiStep("rp_switch_release")
    /\ UNCHANGED mt

RpSwitchRelease ==
    /\ pc = "rp_switch_release"
    /\ \E o \in git_switch_branch(flow.release_branch) :
          Run(o, "switch", flow.release_branch, "rp_push")
    /\ GitFrame

RpPush ==
    /\ pc = "rp_push"
    /\ Push(flow.release_branch, "rp_gh_auth")
    /\ UNCHANGED <<cur, local, merging, dirty, prs, tags, rtags, files, call, other, nextChange, runs, flow, mt, sf,
                   entry>>

RpGhAuth ==
    /\ pc = "rp_gh_auth"
    /\ \E authenticated \in BOOLEAN :
          /\ IF authenticated
             THEN pc' = "rp_create_pr" /\ exit_at' = exit_at
             ELSE Exit1
          /\ trace' = Append(trace, Ev("gh_auth", <<>>, authenticated))
    /\ UNCHANGED <<cur, local, remote, merging, dirty, prs, tags, rtags, files, call, other, nextChange, runs,
                   flow, mt, sf, entry>>

RpCreatePr ==
    /\ pc = "rp_create_pr"
    /\ \E o \in create_pr(flow.release_branch, main_branch) :
          /\ prs' = o.prs
          /\ trace' = Append(trace, Ev("pr_create", flow.release_branch, o.ok))
          /\ pc' = IF o.ok THEN "rp_switch_dev" ELSE "raised"
          /\ exit_at' = IF o.ok THEN exit_at ELSE pc
    /\ UNCHANGED <<cur, local, remote, merging, dirty, tags, rtags, files, call, other, nextChange, runs, flow, mt,
                   sf, entry>>

RpSwitchDev ==
    /\ pc = "rp_switch_dev"
    /\ \E o \in git_switch_branch(dev_branch) : Run(o, "switch", dev_branch, "rp_delete_tmp")
    /\ GitFrame

RpDeleteTmp ==
    /\ pc = "rp_delete_tmp"
    /\ RunWarn(branch_delete(flow.tmp_main_branch, Here), "delete", flow.tmp_main_branch,
               can_delete(flow.tmp_main_branch, Here), "rp_delete_release")
    /\ GitFrame

RpDeleteRelease ==
    /\ pc = "rp_delete_release"
    /\ RunWarn(branch_delete(flow.release_branch, Here), "delete", flow.release_branch,
               can_delete(flow.release_branch, Here), "done")
    /\ GitFrame

-----------------------------------------------------------------------------
(* The release flows in a clone of origin with dev checked out *)

\* Somebody else pushes a change to dev or main on origin: before the
\* operator's first invocation, or while a release flow waits at its gate.
OriginCommit ==
    /\ (pc = "idle" /\ runs = 0) \/ pc = "rel_gate"
    /\ nextChange <= NChanges
    /\ \E b \in {dev_branch, main_branch} :
          remote' = [remote EXCEPT ![b] = @ \cup {nextChange}]
    /\ nextChange' = nextChange + 1
    /\ UNCHANGED <<cur, local, merging, dirty, prs, tags, rtags, files, call, other, runs, pc, exit_at, flow, mt, sf,
                   trace, entry>>

RelInit ==
    /\ cur = dev_branch
    /\ local = (dev_branch :> {}) @@ (main_branch :> {})
    /\ remote = (dev_branch :> {}) @@ (main_branch :> {})
    /\ merging = FALSE
    /\ dirty = FALSE
    /\ prs = {}
    /\ tags = <<>>
    /\ rtags = <<>>
    /\ files = NoFiles
    /\ call = NoCall
    /\ other = NoOther
    /\ nextChange = 1
    /\ runs = 0
    /\ pc = "idle"
    /\ exit_at = ""
    /\ flow = NoFlow
    /\ mt = NoMt
    /\ sf = NoSf
    /\ trace = <<>>
    /\ entry = NoEntry

RelNext ==
    \/ FlowReleaseStart \/ FlowReleasePr
    \/ RsPull \/ RsAssert \/ RpAssert \/ RpPull
    \/ RelSwitch \/ RelBump \/ RelCommit \/ RelInput \/ RelGate
    \/ RsCi
    \/ MtSwitchHead \/ MtPull \/ MtSwitchTmp \/ MtTrial \/ MtAbort
    \/ MtSwitchBase \/ MtDelete \/ MtDecide
    \/ RsSwitchDev \/ RsMergeRelease \/ RsSwitchMain \/ RsPullMain \/ RsSquash
    \/ RsCommitMain \/ RsTag \/ RsSwitchBack \/ RsMergeMain \/ RsDeleteRelease
    \/ RpSwitchMain \/ RpPullMain \/ RpSwitchTmp \/ RpMergeRelease \/ RpCi
    \/ RpSwitchRelease \/ RpPush \/ RpGhAuth \/ RpCreatePr \/ RpSwitchDev
    \/ RpDeleteTmp \/ RpDeleteRelease
    \/ Return \/ OriginCommit \/ UserEdit \/ UserSwitch \/ UserMergeAbort

RelSpec == RelInit /\ [][RelNext]_vars

\* The release from its start to its publication: flow_release_start,
\* flow_release_create_pr and flow_release_finish, invoked in any order.
PubNext ==
    \/ FlowReleaseStart \/ FlowReleasePr
    \/ FlowReleaseFinish \/ RfAssert \/ RfTagList \/ RfPushDev \/ RfPushMain
    \/ RsPull \/ RsAssert \/ RpAssert \/ RpPull
    \/ RelSwitch \/ RelBump \/ RelCommit \/ RelInput \/ RelGate
    \/ RsCi
    \/ MtSwitchHead \/ MtPull \/ MtSwitchTmp \/ MtTrial \/ MtAbort
    \/ MtSwitchBase \/ MtDelete \/ MtDecide
    \/ RsSwitchDev \/ RsMergeRelease \/ RsSwitchMain \/ RsPullMain \/ RsSquash
    \/ RsCommitMain \/ RsTag \/ RsSwitchBack \/ RsMergeMain \/ RsDeleteRelease
    \/ RpSwitchMain \/ RpPullMain \/ RpSwitchTmp \/ RpMergeRelease \/ RpCi
    \/ RpSwitchRelease \/ RpPush \/ RpGhAuth \/ RpCreatePr \/ RpSwitchDev
    \/ RpDeleteTmp \/ RpDeleteRelease
    \/ Return \/ OriginCommit \/ UserEdit \/ UserSwitch \/ UserMergeAbort

PubSpec == RelInit /\ [][PubNext]_vars

\* The flows that start work from dev (flow_feature_start, flow_fix_start,
\* flow_release_start, flow_release_create_pr), origin moving only between
\* invocations.
StartingNext ==
    \/ FlowStart \/ FlowReleaseStart \/ FlowReleasePr
    \/ SfAssert \/ SfSwitchBase \/ SfPull \/ SfSwitchNew
    \/ RsPull \/ RsAssert \/ RpAssert \/ RpPull
    \/ RelSwitch \/ RelBump \/ RelCommit \/ RelInput \/ RelGate
    \/ RsCi
    \/ MtSwitchHead \/ MtPull \/ MtSwitchTmp \/ MtTrial \/ MtAbort
    \/ MtSwitchBase \/ MtDelete \/ MtDecide
    \/ RsSwitchDev \/ RsMergeRelease \/ RsSwitchMain \/ RsPullMain \/ RsSquash
    \/ RsCommitMain \/ RsTag \/ RsSwitchBack \/ RsMergeMain \/ RsDeleteRelease
    \/ RpSwitchMain \/ RpPullMain \/ RpSwitchTmp \/ RpMergeRelease \/ RpCi
    \/ RpSwitchRelease \/ RpPush \/ RpGhAuth \/ RpCreatePr \/ RpSwitchDev
    \/ RpDeleteTmp \/ RpDeleteRelease
    \/ Return \/ (OriginCommit /\ pc = "idle") \/ UserEdit \/ UserSwitch
    \/ UserMergeAbort

StartingSpec == RelInit /\ [][StartingNext]_vars

-----------------------------------------------------------------------------
(* Observations on the running invocation *)

\* merge_test has just returned to its caller.
MtReturned ==
    /\ Len(trace) > 0
    /\ trace[Len(trace)] = Ev("probe", mt.head, TRUE)

\* merge_test has terminated the process at its decision (sys.exit(1)).
MtConflictExit ==
    /\ pc = "exit1"
    /\ exit_at = "mt_decide"

\* A git command failed inside merge_test after the probe branch was created.
MtAbortedAfterProbe ==
    /\ pc = "raised"
    /\ exit_at = "mt_switch_base"

\* Positions of the trace at which a given command was issued.
At(op, arg) == {i \in 1..Len(trace) : trace[i].op = op /\ trace[i].arg = arg}

AtOk(op, arg) == {i \in At(op, arg) : trace[i].ok}

\* Every position of B has a position of A before it.
Before(A, B) == \A j \in B : \E i \in A : i < j

\* The trial merge printed the marker of a clean automatic merge.
OutputHasMarker == \E k \in 1..Len(mt.output) : mt.output[k] = MERGE_MARKER

-----------------------------------------------------------------------------
(* C1: merge_test leaves no temp/<head> branch in the local branch list     *)
(* when control leaves it: on normal return, on the conflict exit, and when *)
(* a git command fails after the probe branch was created.                  *)

C1_NoProbeBranchLeft ==
    (MtReturned \/ MtConflictExit \/ MtAbortedAfterProbe)
        => mt.tmp_head \notin DOMAIN local

(* C2: once the trial merge has been issued the cleanup always runs, in the *)
(* order merge --abort, switch back to base, delete temp/<head>: whenever   *)
(* control has left merge_test after the trial merge, the three commands    *)
(* follow the trial merge in the trace, in that order.                      *)

CleanupRanInOrder ==
    \E i \in At("trial_merge", mt.base) :
        /\ Len(trace) >= i + 3
        /\ trace[i + 1].op = "merge_abort"
        /\ trace[i + 2].op = "switch" /\ trace[i + 2].arg = mt.base
        /\ trace[i + 3].op = "delete" /\ trace[i + 3].arg = mt.tmp_head

C2_CleanupAlwaysRuns ==
    (pc \in Terminal \cup {mt.ret} /\ At("trial_merge", mt.base) # {})
        => CleanupRanInOrder

(* C3: when merge_test returns normally or exits because of a conflict, the *)
(* checked-out branch is base and no merge is in progress.                  *)

C3_BackOnBase ==
    (MtReturned \/ MtConflictExit) => (cur = mt.base /\ ~merging)

\* The trial merge stopped on a conflict and the probe has exited on base.
C3_Witness ==
    /\ MtConflictExit
    /\ mt.kind = "conflict"
    /\ cur = mt.base

(* C4: merge_test returns normally exactly when the trial merge's output    *)
(* contains the marker; for any other output it exits with status 1 at its  *)
(* decision and no later step of the calling flow is executed.              *)

C4_DecisionByMarker ==
    /\ \A i \in At("probe", mt.head) :
          /\ trace[i].ok <=> OutputHasMarker
          /\ ~trace[i].ok => (i = Len(trace) /\ pc = "exit1")
    /\ flow.kind = "finish" =>
          \A j \in 1..Len(trace) :
             trace[j].op \in {"status", "merge", "ci", "push", "gh_auth", "pr_create"}
                => (OutputHasMarker /\ \E i \in AtOk("probe", mt.head) : i < j)

\* The probe exited on an output without the marker.
C4_Witness ==
    /\ MtConflictExit
    /\ ~OutputHasMarker
    /\ trace[Len(trace)] = Ev("probe", mt.head, FALSE)

(* C5: merge_test reports failure only when the merge would conflict: it    *)
(* succeeds whenever the merge would complete automatically, also when base *)
(* is already contained in head.                                            *)

C5_FailsOnlyOnConflict ==
    MtConflictExit => mt.kind \notin {"clean", "uptodate"}

(* C6 as stated: after merge_test (return or conflict exit) base points to  *)
(* the commit it pointed to before, head too unless the initial pull        *)
(* fast-forwarded it from origin, and the local branch list is unchanged.   *)

C6_Original ==
    (MtReturned \/ MtConflictExit) =>
        /\ DOMAIN local = DOMAIN mt.pre
        /\ local[mt.base] = mt.pre[mt.base]
        /\ \/ local[mt.head] = mt.pre[mt.head]
           \/ /\ mt.pre[mt.head] \subseteq local[mt.head]
              /\ mt.head \in DOMAIN remote
              /\ local[mt.head] = remote[mt.head]

\* What a pull from origin may make of a local branch.
PulledFrom(before, b) ==
    {before} \cup (IF b \in DOMAIN remote THEN {before \cup remote[b]} ELSE {})

(* C6 amended: the trial merge touches only temp/<head> and is never        *)
(* committed; base and head change only by the pulls from origin done when  *)
(* switching to them (head is created from origin when it was missing), and *)
(* the branch list is the one before the call without temp/<head>.          *)

C6_OnlyPullsChangeBranches ==
    (MtReturned \/ MtConflictExit) =>
        /\ DOMAIN local = (DOMAIN mt.pre \ {mt.tmp_head}) \cup {mt.head}
        /\ local[mt.base] \in PulledFrom(mt.pre[mt.base], mt.base)
        /\ IF mt.head \in DOMAIN mt.pre
           THEN local[mt.head] \in PulledFrom(mt.pre[mt.head], mt.head)
           ELSE local[mt.head] = remote[mt.head]
        /\ \A b \in DOMAIN local \ {mt.base, mt.head} : local[b] = mt.pre[b]
        /\ ~merging

\* A clean trial merge was run and undone, and base was updated by a pull.
C6_Witness ==
    /\ MtReturned
    /\ mt.kind = "clean"
    /\ local[mt.base] # mt.pre[mt.base]

-----------------------------------------------------------------------------
(* Observations on flow_finish *)

FinishDone == flow.kind = "finish" /\ pc = "done"

\* Positions of the stages of flow_finish in the trace.
ProbeOk == AtOk("probe", dev_branch)

Staged == AtOk("merge", flow.task_branch)

CiOk == AtOk("ci", <<>>)

CiFailed == At("ci", <<>>) \ CiOk

MergedIntoDev == At("merge", flow.pr_branch)

Pushes == At("push", dev_branch) \cup At("push", flow.pr_branch)

Landed == AtOk("push", dev_branch) \cup AtOk("pr_create", flow.pr_branch)

PrCalls == At("gh_auth", <<>>) \cup At("pr_create", flow.pr_branch)

Deletions == At("delete", flow.pr_branch) \cup At("delete", flow.task_branch)

(* C7: flow_finish without a PR title, once the probe and CI have passed,   *)
(* ends on dev, with the task branch's changes in dev, dev pushed to        *)
(* origin, and the task branch and pr/<task-branch> deleted locally.        *)

C7_FinishMergesAndCleans ==
    (FinishDone /\ ~flow.pr_title) =>
        /\ cur = dev_branch
        /\ entry.local[flow.task_branch] \subseteq local[dev_branch]
        /\ dev_branch \in DOMAIN remote
        /\ remote[dev_branch] = local[dev_branch]
        /\ flow.task_branch \notin DOMAIN local
        /\ flow.pr_branch \notin DOMAIN local

\* A task branch with work that dev did not have has been finished.
C7_Witness ==
    /\ FinishDone
    /\ ~flow.pr_title
    /\ ~(entry.local[flow.task_branch] \subseteq entry.remote[dev_branch])
    /\ flow.task_branch \notin DOMAIN local

(* C8: with a PR title, flow_finish pushes pr/<task-branch> and opens a     *)
(* pull request instead of merging into dev, and on completion the task     *)
(* branch and pr/<task-branch> have both been deleted locally.              *)

C8_PrFlowCleans ==
    (FinishDone /\ flow.pr_title) =>
        /\ AtOk("push", flow.pr_branch) # {}
        /\ [head |-> flow.pr_branch, base |-> dev_branch] \in prs
        /\ MergedIntoDev = {}
        /\ flow.task_branch \notin DOMAIN local
        /\ flow.pr_branch \notin DOMAIN local

(* C9: when CI fails in flow_finish the flow stops there: nothing has been  *)
(* merged into dev or pushed, no pull request has been opened, and the task *)
(* branch and pr/<task-branch> still exist.                                 *)

C9_CiFailureStops ==
    (flow.kind = "finish" /\ CiFailed # {}) =>
        /\ pc \in Terminal
        /\ pc # "done"
        /\ CiFailed = {Len(trace)}
        /\ MergedIntoDev = {} /\ Pushes = {} /\ PrCalls = {}
        /\ remote = entry.remote
        /\ prs = entry.prs
        /\ cur = flow.pr_branch
        /\ flow.pr_branch \in DOMAIN local
        /\ flow.task_branch \in DOMAIN local

\* CI failed on a staged PR branch that holds the task's work.
C9_Witness ==
    /\ flow.kind = "finish"
    /\ CiFailed # {}
    /\ Staged # {}
    /\ local[flow.pr_branch] # {}

(* C10: flow_finish goes through merge probe, PR branch staged, CI, merge   *)
(* into dev or PR opened, branches deleted, in that order and skipping      *)
(* none: each stage has the previous one before it in the same invocation,  *)
(* and a completed flow has been through all of them.                       *)

C10_StagesInOrder ==
    flow.kind = "finish" =>
        /\ Before(ProbeOk, Staged)
        /\ Before(Staged, At("ci", <<>>))
        /\ Before(CiOk, MergedIntoDev \cup Pushes \cup PrCalls)
        /\ Before(Landed, Deletions)
        /\ pc = "done" => (Landed # {} /\ Deletions # {})

\* A flow has completed after going through every stage.
C10_Witness ==
    /\ FinishDone
    /\ ProbeOk # {} /\ Staged # {} /\ CiOk # {} /\ Landed # {} /\ Deletions # {}

-----------------------------------------------------------------------------
(* Observations on flow_feature_start / flow_fix_start *)

StartDone == flow.kind = "start" /\ pc = "done"

\* What a switch to an existing or missing local branch b makes of it, given
\* the local branch list before.
SwitchedTo(before, b) ==
    IF b \in DOMAIN before THEN PulledFrom(before[b], b)
    ELSE IF b \in DOMAIN remote THEN {remote[b]}
    ELSE {}

(* C11 as stated: flow_feature_start / flow_fix_start, started on a clean   *)
(* tree, ends on feat/<name> (fix/<name>), that branch pointing at dev's    *)
(* commit, with local dev as it was before, whatever the repository was.    *)

C11_Original ==
    StartDone =>
        /\ cur = sf.new
        /\ local[sf.new] = local[dev_branch]
        /\ dev_branch \in DOMAIN entry.local
        /\ local[dev_branch] = entry.local[dev_branch]

(* C11 amended: the flow ends on feat/<name> (fix/<name>); local dev is as  *)
(* before or updated from origin/dev (created from it when missing); the    *)
(* working branch points at dev's commit when it existed neither locally    *)
(* nor on origin, is created from origin/<branch> when it existed only      *)
(* there, and otherwise is the existing branch, unchanged or updated from   *)
(* origin; no other branch changes.                                         *)

C11_StartEndsOnWorkingBranch ==
    StartDone =>
        /\ cur = sf.new
        /\ ~merging
        /\ DOMAIN local = DOMAIN entry.local \cup {dev_branch, sf.new}
        /\ local[dev_branch] \in SwitchedTo(entry.local, dev_branch)
        /\ IF sf.new \in DOMAIN entry.local \/ sf.new \in DOMAIN remote
           THEN local[sf.new] \in SwitchedTo(entry.local, sf.new)
           ELSE local[sf.new] = local[dev_branch]
        /\ \A b \in DOMAIN entry.local \ {dev_branch, sf.new} :
              local[b] = entry.local[b]

\* A new working branch was created from a dev that origin had moved ahead.
C11_Witness ==
    /\ StartDone
    /\ sf.new \notin DOMAIN entry.local
    /\ dev_branch \in DOMAIN entry.local
    /\ local[dev_branch] # entry.local[dev_branch]
    /\ local[sf.new] = local[dev_branch]

-----------------------------------------------------------------------------
(* git_switch_branch on its own, called in an arbitrary repository *)

\* Branch names and commits of the repositories the call is tried in.
SwNames == {dev_branch, get_feature_branch_name(<<"login">>),
            get_pull_request_branch(get_feature_branch_name(<<"login">>))}

SwCommits == {{}, {1}, {3}}

SwBranchLists == UNION {[S -> SwCommits] : S \in SUBSET SwNames}

\* The branch names passed to git_switch_branch.
SwitchTargets == SwNames \cup {get_fix_branch_name(<<"login">>)}

SwInit ==
    /\ local \in {l \in SwBranchLists : DOMAIN l # {}}
    /\ cur \in DOMAIN local
    /\ remote \in SwBranchLists
    /\ merging \in BOOLEAN
    /\ dirty \in BOOLEAN
    /\ prs = {}
    /\ tags = <<>>
    /\ rtags = <<>>
    /\ files = NoFiles
    /\ call = NoCall
    /\ other = NoOther
    /\ nextChange = 1
    /\ runs = 0
    /\ pc = "idle"
    /\ exit_at = ""
    /\ flow = NoFlow
    /\ mt = NoMt
    /\ sf = NoSf
    /\ trace = <<>>
    /\ entry = NoEntry

\* A caller is about to run git_switch_branch(target).
SwCall ==
    /\ Enter
    /\ \E target \in SwitchTargets : sf' = [NoSf EXCEPT !.new = target, !.ret = "done"]
    /\ flow' = [NoFlow EXCEPT !.kind = "switch"]
    /\ pc' = "sf_switch_new"
    /\ UNCHANGED <<cur, local, remote, merging, dirty, prs, tags, rtags, files, call, other, nextChange, exit_at, mt>>

SwNext == SwCall \/ SfSwitchNew

SwitchSpec == SwInit /\ [][SwNext]_vars

\* The call has returned normally.
SwitchReturned ==
    /\ flow.kind = "switch"
    /\ pc = "done"

(* C13: whenever git_switch_branch(target) returns normally the checked-out *)
(* branch is target, whether or not target existed locally, existed on      *)
(* origin or was already checked out; a call that does not return normally  *)
(* has raised and ended the invocation, with no branch checked out that was *)
(* not checked out before.                                                  *)

C13_SwitchEndsOnTarget ==
    flow.kind = "switch" =>
        /\ pc \in {"sf_switch_new", "done", "raised"}
        /\ SwitchReturned =>
              (cur = sf.new /\ sf.new \in DOMAIN local /\ trace = <<Ev("switch", sf.new, TRUE)>>)
        /\ pc = "raised" =>
              (trace = <<Ev("switch", sf.new, FALSE)>> /\ cur \in {entry.cur, sf.new})

\* A branch that existed only on origin has been switched to.
C13_Witness ==
    /\ SwitchReturned
    /\ sf.new \notin DOMAIN entry.local
    /\ sf.new \in DOMAIN remote
    /\ cur = sf.new

\* The call returned with the branch that was already checked out.
C13_WitnessCurrent ==
    /\ SwitchReturned
    /\ entry.cur = sf.new
    /\ sf.new \notin DOMAIN remote

(* C14: git_switch_branch called with the checked-out branch as its target  *)
(* is a no-op. flow_feature_start invoked on dev calls it so: when that     *)
(* call has returned, the checked-out branch and every local branch are     *)
(* as the invocation found them.                                            *)

C14_NoOpOnCurrent ==
    (flow.kind = "start" /\ pc = "sf_pull" /\ entry.cur = sf.base) =>
        (cur = entry.cur /\ local = entry.local)

(* C15: git_switch_branch chooses by priority: switch (and pull only if a   *)
(* same-named branch is on origin) when the branch exists locally, track    *)
(* origin/<name> when it exists only on origin, create from HEAD otherwise. *)
(* So when flow_feature_start is about to switch to a working branch that   *)
(* exists neither locally nor on origin, the call can create it from HEAD.  *)

C15_CreatesWhenNowhere ==
    (flow.kind = "start" /\ pc = "sf_switch_new"
        /\ sf.new \notin DOMAIN local /\ sf.new \notin DOMAIN remote) =>
        \E o \in git_switch_branch(sf.new) :
            /\ o.ok
            /\ o.cur = sf.new
            /\ o.local = SetBranch(local, sf.new, local[cur])

-----------------------------------------------------------------------------
(* Observations on the release flows *)

AtOp(op) == {i \in 1..Len(trace) : trace[i].op = op}

AtOpOk(op) == {i \in AtOp(op) : trace[i].ok}

\* The invocation is one of the flows that start work from dev.
StartingFlow == flow.kind \in {"start", "release_start", "release_pr"}

(* C12: with uncommitted changes in the working tree assert_no_uncommitted  *)
(* ends the process with status 1, and in flow_feature_start,               *)
(* flow_fix_start, flow_release_start and flow_release_create_pr no switch  *)
(* has been issued and no branch created before that exit.                  *)

C12_DirtyTreeStopsBeforeSwitch ==
    StartingFlow =>
        /\ (Len(trace) > 0 /\ trace[Len(trace)].op = "status") =>
              (trace[Len(trace)].ok <=> ~has_uncommitted)
        /\ \A i \in AtOp("status") :
              ~trace[i].ok =>
                  /\ i = Len(trace)
                  /\ pc = "exit1"
                  /\ AtOp("switch") = {}
                  /\ cur = entry.cur
                  /\ DOMAIN local = DOMAIN entry.local

\* flow_release_start has pulled dev and then stopped on a dirty tree.
C12_Witness ==
    /\ flow.kind = "release_start"
    /\ pc = "exit1"
    /\ dirty
    /\ AtOk("pull", dev_branch) # {}
    /\ Len(trace) > 0
    /\ trace[Len(trace)] = Ev("status", <<>>, FALSE)

(* C16: flow_release_start invoked on a branch other than dev exits with    *)
(* status 1 before any mutating operation: it has issued no command, and    *)
(* the branches, the tags and origin are as it found them.                  *)

C16_WrongBranchStopsRelease ==
    (flow.kind = "release_start" /\ entry.cur # dev_branch) =>
        /\ pc = "exit1"
        /\ trace = <<>>
        /\ cur = entry.cur
        /\ local = entry.local
        /\ remote = entry.remote
        /\ tags = entry.tags

\* A release with a valid increment was refused on a working branch.
C16_Witness ==
    /\ flow.kind = "release_start"
    /\ flow.increment = "patch"
    /\ entry.cur = get_feature_branch_name(<<"login">>)
    /\ pc = "exit1"

\* The answer is y or Y, with nothing but whitespace around it.
IsAffirmative(a) ==
    \E i \in 1..Len(a) :
        /\ a[i] \in {"y", "Y"}
        /\ \A j \in 1..Len(a) : j # i => a[j] \in Whitespace

(* C17: at the gate of flow_release_start and flow_release_create_pr the    *)
(* flow continues exactly when the answer, trimmed and lower-cased, is y;   *)
(* any other answer exits with status 1 and no command is issued after the  *)
(* answer has been read.                                                    *)

C17_GateStopsOnAnythingButYes ==
    /\ pc = "rel_gate_read" =>
          ((lower(strip(flow.answer)) = <<"y">>) <=> IsAffirmative(flow.answer))
    /\ \A i \in AtOp("gate") :
          /\ trace[i].ok <=> trace[i].arg = <<"y">>
          /\ ~trace[i].ok => (i = Len(trace) /\ pc = "exit1" /\ tags = entry.tags)
    /\ (pc \in {"rs_ci", "rp_switch_main"}) => AtOpOk("gate") # {}

\* The operator answered "yes" and flow_release_start stopped there.
C17_Witness ==
    /\ flow.kind = "release_start"
    /\ pc = "exit1"
    /\ Len(trace) > 0
    /\ trace[Len(trace)] = Ev("gate", <<"y", "e", "s">>, FALSE)

-----------------------------------------------------------------------------
(* Observations on flow_release_start *)

ReleaseStarted == flow.kind = "release_start"

\* Positions of the stages of flow_release_start in the trace.
Branched == AtOk("switch", flow.release_branch)

Bumped == AtOpOk("bump")

ChangelogCommitted == AtOk("commit", flow.release_branch)

UserConfirmed == AtOpOk("gate")

CiVerified == AtOpOk("ci")

ProbedDev == AtOk("probe", dev_branch)

MergedToDev == AtOk("merge", flow.release_branch)

ProbedMain == AtOk("probe", main_branch)

Squashed == AtOk("squash", dev_branch)

MergedToMain == AtOk("commit", main_branch)

Tagged == AtOk("tag", <<flow.new_version>>)

CleanedUp == At("delete", flow.release_branch)

(* C18: flow_release_start goes through branched, bumped, changelog         *)
(* committed, user confirmed, CI verified, merged to dev, merged to main,   *)
(* tagged, release branch deleted, in that order: every stage attempted has *)
(* the previous one completed before it, and the tag is created only after  *)
(* the confirmation, a passed CI, both probes and the squash commit on      *)
(* main, all in the same invocation.                                        *)

C19_ProbesBeforeMergeIntoDev ==
    ReleaseStarted =>
        /\ Before(ProbedDev, At("merge", flow.release_branch))
        /\ Before(ProbedMain, At("merge", flow.release_branch))
        /\ MtConflictExit => MergedToDev = {}

\* The second part of C19 alone: a probe conflict leaves dev without the release.
C19_ConflictLeavesDev ==
    (ReleaseStarted /\ MtConflictExit /\ mt.kind = "conflict") =>
        VersionOf(local[dev_branch]) = VersionOf(entry.local[dev_branch])

(* C20: when flow_release_start completes, dev is checked out, the release  *)
(* branch is gone from the local branch list, the tag <version> exists and  *)
(* points at the squash commit made on main, which holds what dev held,     *)
(* and dev contains main.                                                   *)

C20_ReleaseCompleted ==
    (ReleaseStarted /\ pc = "done") =>
        /\ cur = dev_branch
        /\ ~merging
        /\ flow.release_branch \notin DOMAIN local
        /\ flow.new_version \in DOMAIN tags
        /\ tags[flow.new_version] = local[main_branch]
        /\ entry.local[main_branch] \subseteq tags[flow.new_version]
        /\ 0 - VersionOf(local[main_branch]) \in tags[flow.new_version]
        /\ local[main_branch] \subseteq local[dev_branch]

\* A release was completed on top of changes pulled from origin.
C20_Witness ==
    /\ ReleaseStarted
    /\ pc = "done"
    /\ flow.new_version \in DOMAIN tags
    /\ \E x \in tags[flow.new_version] : x > 0

-----------------------------------------------------------------------------
(* C21: flow_release_start never pushes. During and after an invocation of  *)
(* flow_release_start no push command has been issued, the tags on origin   *)
(* are the ones it found and nothing the local repository held or produced  *)
(* (unpushed commits, the version bump, the squash commit) has reached a    *)
(* branch on origin: origin differs from the entry state only by what other *)
(* users pushed meanwhile. Publishing is left to flow_release_finish.       *)

\* The changes present in some local branch or tag when the invocation began.
HeldAtEntry ==
    UNION {entry.local[b] : b \in DOMAIN entry.local}
    \cup UNION {entry.tags[t] : t \in DOMAIN entry.tags}

C21_PublishedByFinish ==
    /\ flow.kind = "release_finish"
    /\ pc = "done"
    /\ flow.new_version \in DOMAIN rtags
    /\ \E x \in remote[main_branch] : x < 0

-----------------------------------------------------------------------------
(* The version helpers of GitFlow, called on their own *)

MaxLines == 2

QUOTE == "\""

NL == "\n"

\* The version types and providers a caller may pass.
VersionTypeInputs ==
    {"patch", "minor", "major", "prepatch", "preminor", "premajor",
     "prerelease", "PATCH", "Minor", "bogus", ""}

ProviderInputs == {"poetry", "commitizen", "pip"}

\* str.lower and str.upper on the version types.
str_lower(w) ==
    IF w = "PATCH" THEN "patch" ELSE IF w = "Minor" THEN "minor" ELSE w

str_upper(w) ==
    IF w = "patch" THEN "PATCH"
    ELSE IF w \in {"minor", "Minor"} THEN "MINOR"
    ELSE IF w = "major" THEN "MAJOR"
    ELSE IF w = "bogus" THEN "BOGUS"
    ELSE w

\* poetry version <type> --dry-run --short in a project at version 0.1.0
poetry_version(version_type) ==
    IF version_type = "patch" THEN "0.1.1"
    ELSE IF version_type = "minor" THEN "0.2.0"
    ELSE IF version_type = "major" THEN "1.0.0"
    ELSE IF version_type = "prepatch" THEN "0.1.1a0"
    ELSE IF version_type = "preminor" THEN "0.2.0a0"
    ELSE IF version_type = "premajor" THEN "1.0.0a0"
    ELSE "0.1.1a0"

\* cz bump --files-only --increment <INCREMENT> in a project at version 0.1.0
cz_bump(INCREMENT) ==
    IF INCREMENT = "PATCH" THEN "0.1.1"
    ELSE IF INCREMENT = "MINOR" THEN "0.2.0"
    ELSE "1.0.0"

\* get_new_pip_version: the type is validated against the module's provider,
\* lower-cased, validated against poetry, and then asked of poetry.
get_new_pip_version_of(version_type) ==
    LET a1 == assert_version_type(version_type, BUMP_VERSION_PROVIDER)
        vt == IF BUMP_VERSION_PROVIDER = "commitizen"
              THEN str_lower(version_type) ELSE version_type
        a2 == assert_version_type(vt, "poetry")
    IN IF a1 # "ok" THEN [end |-> a1, value |-> ""]
       ELSE IF a2 # "ok" THEN [end |-> a2, value |-> ""]
       ELSE [end |-> "ok", value |-> poetry_version(vt)]

\* The README is a sequence of tokens; NL separates its lines.
ReadmeLines ==
    { <<"#x">>,
      <<"VERSION=", QUOTE, "0.1.0", QUOTE>>,
      <<"VERSION=", QUOTE, "0.1.1", QUOTE>>,
      <<"VERSION=", QUOTE, "0.1.0", QUOTE, "#x">>,
      <<" ", "VERSION=", QUOTE, "0.1.0", QUOTE>>,
      <<"VERSION=", QUOTE, QUOTE>>,
      <<"VERSION=", QUOTE>>,
      <<"#x", QUOTE>> }

RECURSIVE JoinLines(_)
JoinLines(ls) ==
    IF ls = <<>> THEN <<>>
    ELSE IF Len(ls) = 1 THEN ls[1]
    ELSE ls[1] \o <<NL>> \o JoinLines(Tail(ls))

Readmes ==
    {JoinLines(ls) : ls \in UNION {[1..n -> ReadmeLines] : n \in 0..MaxLines}}

\* The pattern ^VERSION="([^"]+)" under re.MULTILINE: where a match starting
\* at token i ends, or 0. The value is one token or more up to the next
\* quote, and may run over line ends.
match_end(content, i) ==
    IF /\ (i = 1 \/ content[i - 1] = NL)
       /\ content[i] = "VERSION="
       /\ i + 1 <= Len(content)
       /\ content[i + 1] = QUOTE
    THEN LET closers == {j \in (i + 3)..Len(content) :
                            /\ content[j] = QUOTE
                            /\ \A k \in (i + 2)..(j - 1) : content[k] # QUOTE}
         IN IF closers = {} THEN 0 ELSE CHOOSE j \in closers : TRUE
    ELSE 0

\* re.sub(pattern, replacement, content, flags=re.MULTILINE), from token i on
RECURSIVE re_sub(_, _, _)
re_sub(content, i, new_version) ==
    IF i > Len(content) THEN <<>>
    ELSE IF match_end(content, i) > 0
    THEN <<"VERSION=", QUOTE, new_version, QUOTE>>
         \o re_sub(content, match_end(content, i) + 1, new_version)
    ELSE <<content[i]>> \o re_sub(content, i + 1, new_version)

\* Variant: the file is opened for writing before the content is compared,
\* so a failing call leaves an empty README.
update_readme_version_opens_first(new_version, f) ==
    LET content == IF f.readme_exists THEN f.readme ELSE <<>>
        new_content == re_sub(content, 1, new_version)
    IN IF new_content = content
       THEN [end |-> "exit1", files |-> [f EXCEPT !.readme = <<>>, !.readme_exists = TRUE]]
       ELSE [end |-> "ok", files |-> [f EXCEPT !.readme = new_content]]

\* Variant: the call succeeds whenever the pattern matched.
update_readme_version_if_matched(new_version, f) ==
    IF ~f.readme_exists THEN [end |-> "exit1", files |-> f]
    ELSE IF \A i \in 1..Len(f.readme) : match_end(f.readme, i) = 0
    THEN [end |-> "exit1", files |-> f]
    ELSE [end |-> "ok",
          files |-> [f EXCEPT !.readme = re_sub(f.readme, 1, new_version)]]

\* The file is read, rewritten in memory and written back only if the
\* rewrite changed it; a missing file and an unchanged text both exit.
update_readme_version(new_version, f) ==
    IF ~f.readme_exists THEN [end |-> "exit1", files |-> f]
    ELSE LET content == f.readme
             new_content == re_sub(content, 1, new_version)
         IN IF new_content = content
            THEN [end |-> "exit1", files |-> f]
            ELSE [end |-> "ok", files |-> [f EXCEPT !.readme = new_content]]

NoBump == [fn |-> "none", increment |-> "", provider |-> "", new_version |-> "",
           new_tag_version |-> "", new_pip_version |-> ""]

\* A project at version 0.1.0 whose README is missing or has any of the
\* bounded contents.
ProjectFiles ==
    {[NoFiles EXCEPT !.version = "0.1.0"]}
    \cup {[readme |-> r, readme_exists |-> TRUE, version |-> "0.1.0",
           changelog |-> FALSE] : r \in Readmes}

\* The calls of the helpers, with any of the inputs.
CallInputs ==
    {[NoBump EXCEPT !.fn = fn, !.increment = i, !.provider = p] :
        fn \in {"bump_version", "assert_version_type"},
        i \in VersionTypeInputs, p \in ProviderInputs}
    \cup {[NoBump EXCEPT !.fn = "update_readme_version", !.new_version = v] :
            v \in {"0.1.1", "0.2.0"}}

\* What the files hold beyond the branches and tags of the repository.
BumpFrame ==
    UNCHANGED <<cur, local, remote, merging, prs, tags, rtags, other, nextChange,
                runs, flow, mt, sf, entry>>

\* One of the helpers is about to run in the project.
BumpInit ==
    /\ cur = dev_branch
    /\ local = (dev_branch :> {}) @@ (main_branch :> {})
    /\ remote = (dev_branch :> {}) @@ (main_branch :> {})
    /\ merging = FALSE
    /\ dirty = FALSE
    /\ prs = {}
    /\ tags = <<>>
    /\ rtags = <<>>
    /\ other = NoOther
    /\ nextChange = 1
    /\ runs = 1
    /\ exit_at = ""
    /\ flow = NoFlow
    /\ mt = NoMt
    /\ sf = NoSf
    /\ trace = <<>>
    /\ entry = NoEntry
    /\ files \in ProjectFiles
    /\ call \in CallInputs
    /\ pc = IF call.fn = "bump_version" THEN "bv_assert"
            ELSE IF call.fn = "update_readme_version" THEN "urv"
            ELSE "avt"

\* The end of a helper: normal return, sys.exit(1) or a raised exception.
End(r, next) ==
    /\ pc' = IF r = "ok" THEN next ELSE IF r = "exit1" THEN "exit1" ELSE "raised"
    /\ exit_at' = IF r = "ok" THEN exit_at ELSE pc

\* assert_version_type called on its own
AvtCall ==
    /\ pc = "avt"
    /\ LET r == assert_version_type(call.increment, call.provider)
       IN /\ End(r, "done")
          /\ trace' = Append(trace, Ev("assert_version_type",
                                       <<call.increment, call.provider>>, r = "ok"))
    /\ UNCHANGED <<dirty, files, call>>
    /\ BumpFrame

\* update_readme_version called on its own
UrvCall ==
    /\ pc = "urv"
    /\ LET o == update_readme_version(call.new_version, files)
       IN /\ End(o.end, "done")
          /\ files' = o.files
          /\ dirty' = (dirty \/ o.files # files)
          /\ trace' = Append(trace, Ev("readme", <<call.new_version>>, o.end = "ok"))
    /\ UNCHANGED call
    /\ BumpFrame

\* bump_version: self.assert_version_type(increment, provider)
BvAssert ==
    /\ pc = "bv_assert"
    /\ LET r == assert_version_type(call.increment, call.provider)
       IN /\ End(r, "bv_new_version")
          /\ trace' = Append(trace, Ev("assert_version_type",
                                       <<call.increment, call.provider>>, r = "ok"))
    /\ UNCHANGED <<dirty, files, call>>
    /\ BumpFrame

\* new_tag_version = self.get_new_version(increment); the dry run may fail.
BvNewVersion ==
    /\ pc = "bv_new_version"
    /\ LET o == get_new_pip_version_of(call.increment)
       IN \E tool_ok \in BOOLEAN :
             LET r == IF o.end = "ok" /\ ~tool_ok THEN "raise" ELSE o.end
             IN /\ End(r, "bv_new_pip_version")
                /\ call' = IF r = "ok"
                           THEN [call EXCEPT !.new_tag_version = "v" \o o.value]
                           ELSE call
                /\ trace' = Append(trace, Ev("dry_run", <<call.increment>>, r = "ok"))
    /\ UNCHANGED <<dirty, files>>
    /\ BumpFrame

\* new_pip_version = self.get_new_pip_version(increment), then the branch on
\* the provider (an unknown one raises ValueError).
BvNewPipVersion ==
    /\ pc = "bv_new_pip_version"
    /\ LET o == get_new_pip_version_of(call.increment)
       IN \E tool_ok \in BOOLEAN :
             LET r == IF o.end = "ok" /\ ~tool_ok THEN "raise"
                      ELSE IF o.end = "ok"
                              /\ call.provider \notin {"poetry", "commitizen"}
                      THEN "raise"
                      ELSE o.end
             IN /\ End(r, IF call.provider = "poetry" THEN "bv_poetry"
                          ELSE "bv_changelog")
                /\ call' = IF o.end = "ok" /\ tool_ok
                           THEN [call EXCEPT !.new_pip_version = o.value]
                           ELSE call
                /\ trace' = Append(trace, Ev("dry_run", <<call.increment>>,
                                             o.end = "ok" /\ tool_ok))
    /\ UNCHANGED <<dirty, files>>
    /\ BumpFrame

\* poetry version {increment}
BvPoetry ==
    /\ pc = "bv_poetry"
    /\ \E ok \in BOOLEAN :
          /\ End(IF ok THEN "ok" ELSE "raise", "bv_readme")
          /\ files' = IF ok THEN [files EXCEPT !.version = poetry_version(call.increment)]
                      ELSE files
          /\ dirty' = (dirty \/ ok)
          /\ trace' = Append(trace, Ev("bump", <<call.increment>>, ok))
    /\ UNCHANGED call
    /\ BumpFrame

\* update_changelog: cz changelog --unreleased-version={new_tag_version}
BvChangelog ==
    /\ pc = "bv_changelog"
    /\ \E ok \in BOOLEAN :
          /\ End(IF ok THEN "ok" ELSE "raise", "bv_cz_bump")
          /\ files' = IF ok THEN [files EXCEPT !.changelog = TRUE] ELSE files
          /\ dirty' = (dirty \/ ok)
          /\ trace' = Append(trace, Ev("changelog", <<call.new_tag_version>>, ok))
    /\ UNCHANGED call
    /\ BumpFrame

\* Variant: the README is rewritten before the provider's bump is applied.
BvReadmeBeforeBump ==
    /\ pc = "bv_cz_bump"
    /\ LET o == update_readme_version(call.new_pip_version, files)
       IN /\ End(o.end, "bv_readme")
          /\ files' = IF o.end = "ok"
                      THEN [o.files EXCEPT
                              !.version = cz_bump(str_upper(call.increment))]
                      ELSE o.files
          /\ dirty' = TRUE
          /\ trace' = IF o.end = "ok"
                      THEN trace \o <<Ev("readme", <<call.new_pip_version>>, TRUE),
                                      Ev("bump", <<str_upper(call.increment)>>, TRUE)>>
                      ELSE Append(trace, Ev("readme", <<call.new_pip_version>>, FALSE))
    /\ UNCHANGED call
    /\ BumpFrame

\* cz bump --files-only --increment {increment.upper()}
BvCzBump ==
    /\ pc = "bv_cz_bump"
    /\ \E ok \in BOOLEAN :
          /\ End(IF ok THEN "ok" ELSE "raise", "bv_readme")
          /\ files' = IF ok
                      THEN [files EXCEPT !.version = cz_bump(str_upper(call.increment))]
                      ELSE files
          /\ dirty' = (dirty \/ ok)
          /\ trace' = Append(trace, Ev("bump", <<str_upper(call.increment)>>, ok))
    /\ UNCHANGED call
    /\ BumpFrame

\* self.update_readme_version(new_pip_version)
BvReadme ==
    /\ pc = "bv_readme"
    /\ LET o == update_readme_version(call.new_pip_version, files)
       IN /\ End(o.end, "done")
          /\ files' = o.files
          /\ dirty' = (dirty \/ o.files # files)
          /\ trace' = Append(trace, Ev("readme", <<call.new_pip_version>>, o.end = "ok"))
    /\ UNCHANGED call
    /\ BumpFrame

BumpNext ==
    \/ AvtCall \/ UrvCall
    \/ BvAssert \/ BvNewVersion \/ BvNewPipVersion
    \/ BvPoetry \/ BvChangelog \/ BvCzBump \/ BvReadme

BumpSpec == BumpInit /\ [][BumpNext]_vars

-----------------------------------------------------------------------------
(* Observations of the version helpers *)

\* The accepted set of a provider, as the specification lists it.
Accepted(provider) ==
    IF provider = "commitizen" THEN {"patch", "minor", "major"}
    ELSE IF provider = "poetry"
    THEN {"patch", "minor", "major", "prepatch", "preminor", "premajor", "prerelease"}
    ELSE {}

KnownProviders == {"poetry", "commitizen"}

BumpCalled == call.fn = "bump_version"

\* The README has a line the pattern matches.
HasMarker(f) ==
    f.readme_exists /\ \E i \in 1..Len(f.readme) : match_end(f.readme, i) > 0

\* Every match of the pattern in the README is VERSION="<v>".
AllMarkersRead(f, v) ==
    \A i \in 1..Len(f.readme) :
        match_end(f.readme, i) > 0 =>
            match_end(f.readme, i) = i + 3 /\ f.readme[i + 2] = v

(* C22: bump_version(increment, provider) passes validation and goes on to  *)
(* query and apply the bump for every increment in the accepted set of the  *)
(* provider it was given, and only for those: it never exits during         *)
(* validation with an increment the provider accepts, and never applies a   *)
(* bump for one it does not accept.                                         *)
C22_AcceptsProviderSet ==
    BumpCalled =>
        /\ (pc = "exit1" /\ exit_at \in {"bv_assert", "bv_new_version",
                                         "bv_new_pip_version"})
              => call.increment \notin Accepted(call.provider)
        /\ (AtOp("bump") # {} \/ AtOp("changelog") # {})
              => call.increment \in Accepted(call.provider)

\* What the code accepts: the increments common to the provider given and
\* the provider of the module.
C22_AcceptsCommonSet ==
    BumpCalled =>
        /\ (pc = "exit1" /\ exit_at \in {"bv_assert", "bv_new_version",
                                         "bv_new_pip_version"})
              => call.increment \notin
                    (Accepted(call.provider) \cap Accepted(BUMP_VERSION_PROVIDER))
        /\ (AtOp("bump") # {} \/ AtOp("changelog") # {})
              => call.increment \in
                    (Accepted(call.provider) \cap Accepted(BUMP_VERSION_PROVIDER))

\* bump_version("prerelease", "poetry") stopped by the second validation.
C22_PoetryTypeRejected ==
    /\ BumpCalled
    /\ call.provider = "poetry"
    /\ call.increment = "prerelease"
    /\ pc = "exit1"
    /\ exit_at = "bv_new_version"

(* C23: assert_version_type(kind, provider) returns normally exactly when   *)
(* kind is in the accepted set of a known provider, exits with status 1     *)
(* exactly when the provider is known and kind is not in its set, and       *)
(* raises (never exits) exactly when the provider is unknown, whatever kind *)
(* is.                                                                      *)
C23_ValidationOutcomes ==
    (call.fn = "assert_version_type" /\ pc # "avt") =>
        /\ pc \in Terminal
        /\ (pc = "done") <=> (call.increment \in Accepted(call.provider))
        /\ (pc = "exit1") <=> (/\ call.provider \in KnownProviders
                               /\ call.increment \notin Accepted(call.provider))
        /\ (pc = "raised") <=> (call.provider \notin KnownProviders)

C23_Witness ==
    /\ call.fn = "assert_version_type"
    /\ call.increment = "prerelease"
    /\ call.provider = "commitizen"
    /\ pc = "exit1"

C23_WitnessAccepted ==
    /\ call.fn = "assert_version_type"
    /\ call.increment = "prerelease"
    /\ call.provider = "poetry"
    /\ pc = "done"

C23_WitnessUnknownProvider ==
    /\ call.fn = "assert_version_type"
    /\ call.increment = "patch"
    /\ call.provider = "pip"
    /\ pc = "raised"

(* C24: in bump_version the provider's bump of the project metadata (and,   *)
(* for commitizen, the changelog before it) has been applied before the     *)
(* README is rewritten; so when the README has no marker line the call      *)
(* exits with status 1 and the metadata already reports the new version.    *)
C24_BumpBeforeReadme ==
    BumpCalled =>
        /\ \A i \in AtOp("readme") : \E j \in AtOpOk("bump") : j < i
        /\ call.provider = "commitizen" =>
              \A j \in AtOp("bump") : \E k \in AtOpOk("changelog") : k < j
        /\ (AtOp("readme") # {} /\ ~HasMarker(files)) =>
              /\ pc = "exit1"
              /\ exit_at = "bv_readme"
              /\ files.version = call.new_pip_version
              /\ files.version # "0.1.0"

C24_Witness ==
    /\ BumpCalled
    /\ call.provider = "commitizen"
    /\ pc = "exit1"
    /\ exit_at = "bv_readme"
    /\ files.readme_exists
    /\ ~HasMarker(files)
    /\ files.version = "0.1.1"
    /\ files.changelog

(* C25 as stated: update_readme_version(new_version) exits with status 1   *)
(* exactly when the README is absent or has no marker line; whenever a      *)
(* marker line is present it succeeds, also when the marker already held    *)
(* new_version.                                                             *)
C25_ExitsExactlyWithoutMarker ==
    (call.fn = "update_readme_version" /\ pc # "urv") =>
        /\ pc \in {"done", "exit1"}
        /\ (pc = "exit1") <=> ~HasMarker(files)
        /\ pc = "done" => AllMarkersRead(files, call.new_version)

\* The call exits although every marker line reads new_version.
C25_ExitsOnCurrentMarker ==
    /\ call.fn = "update_readme_version"
    /\ pc = "exit1"
    /\ HasMarker(files)
    /\ AllMarkersRead(files, call.new_version)

(* C25: update_readme_version(new_version) exits with status 1, leaving    *)
(* the file as it was, only when the README is absent, has no marker line   *)
(* or has marker lines that all read new_version already; when it succeeds  *)
(* the README had a marker line, the file was changed and every marker line *)
(* reads VERSION="<new_version>".                                           *)
C25_ExitsExactlyWhenUnchanged ==
    (call.fn = "update_readme_version" /\ pc # "urv") =>
        /\ pc \in {"done", "exit1"}
        /\ pc = "exit1" =>
              /\ ~HasMarker(files) \/ AllMarkersRead(files, call.new_version)
              /\ ~dirty
        /\ pc = "done" =>
              /\ HasMarker(files)
              /\ AllMarkersRead(files, call.new_version)
              /\ dirty

-----------------------------------------------------------------------------
(* The branch-name derivations, called on their own *)

MaxSegments == 2

\* An identifier is a string, held as its non-empty list of "/"-separated
\* segments; the empty string is the list of one empty segment.
Identifiers ==
    UNION {[1..n -> {"login", "feat", "fix", ""}] : n \in 1..MaxSegments}

\* Versions are strings without "/".
Versions == {<<v>> : v \in {"v0.1.1", "v0.2.0", "0.1.1", "release", ""}}

Derivations ==
    {"get_feature_branch_name", "get_fix_branch_name",
     "get_pull_request_branch", "get_release_branch_name"}

derive_branch_name(fn, id) ==
    IF fn = "get_feature_branch_name" THEN get_feature_branch_name(id)
    ELSE IF fn = "get_fix_branch_name" THEN get_fix_branch_name(id)
    ELSE IF fn = "get_pull_request_branch" THEN get_pull_request_branch(id)
    ELSE get_release_branch_name(id[1])

NoName == [fn |-> "none", a |-> <<>>, b |-> <<>>, name_a |-> <<>>,
           name_a_again |-> <<>>, name_b |-> <<>>,
           is_feature |-> FALSE, is_fix |-> FALSE]

\* One derivation is about to be applied to two identifiers.
NameInit ==
    /\ cur = dev_branch
    /\ local = (dev_branch :> {}) @@ (main_branch :> {})
    /\ remote = (dev_branch :> {}) @@ (main_branch :> {})
    /\ merging = FALSE
    /\ dirty = FALSE
    /\ prs = {}
    /\ tags = <<>>
    /\ rtags = <<>>
    /\ files = NoFiles
    /\ other = NoOther
    /\ nextChange = 1
    /\ runs = 1
    /\ exit_at = ""
    /\ flow = NoFlow
    /\ mt = NoMt
    /\ sf = NoSf
    /\ trace = <<>>
    /\ entry = NoEntry
    /\ pc = "nm_derive"
    /\ \E fn \in Derivations :
          \E a, b \in (IF fn = "get_release_branch_name" THEN Versions ELSE Identifiers) :
             call = [NoName EXCEPT !.fn = fn, !.a = a, !.b = b]

NameFrame ==
    UNCHANGED <<cur, local, remote, merging, dirty, prs, tags, rtags, files, other,
                nextChange, runs, exit_at, flow, mt, sf, trace, entry>>

\* The derivation is applied to a, to a once more, and to b.
NameDerive ==
    /\ pc = "nm_derive"
    /\ call' = [call EXCEPT !.name_a = derive_branch_name(call.fn, call.a),
                            !.name_a_again = derive_branch_name(call.fn, call.a),
                            !.name_b = derive_branch_name(call.fn, call.b)]
    /\ pc' = "nm_recognise"
    /\ NameFrame

\* is_feature_branch and is_fix_branch are applied to the name derived from a.
NameRecognise ==
    /\ pc = "nm_recognise"
    /\ call' = [call EXCEPT !.is_feature = is_feature_branch(call.name_a),
                            !.is_fix = is_fix_branch(call.name_a)]
    /\ pc' = "done"
    /\ NameFrame

NameNext == NameDerive \/ NameRecognise

NameSpec == NameInit /\ [][NameNext]_vars

(* C26: each branch-name derivation maps the same identifier to the same    *)
(* name and two different identifiers to two different names; a name        *)
(* derived by get_feature_branch_name is recognised by is_feature_branch    *)
(* and not by is_fix_branch, and a name derived by get_fix_branch_name is   *)
(* recognised by is_fix_branch and not by is_feature_branch.                *)
C26_DerivationsInjective ==
    pc = "done" =>
        /\ call.name_a = call.name_a_again
        /\ (call.a = call.b) <=> (call.name_a = call.name_b)
        /\ call.fn = "get_feature_branch_name" => call.is_feature /\ ~call.is_fix
        /\ call.fn = "get_fix_branch_name" => call.is_fix /\ ~call.is_feature

\* Two feature identifiers that differ only in their first segment, the
\* first being named like the fix prefix.
C26_Witness ==
    /\ pc = "done"
    /\ call.fn = "get_feature_branch_name"
    /\ call.a = <<"fix", "login">>
    /\ call.b = <<"feat", "login">>
    /\ call.name_a # call.name_b
    /\ call.is_feature
    /\ ~call.is_fix

-----------------------------------------------------------------------------
(* tasks/release.py: the tasks release.release and release.create_pr *)

\* The commit of docs/changelog.md is a change of its own.
ChangelogChange == 0

Exit0 ==
    /\ pc' = "exit0"
    /\ exit_at' = pc

\* release.git_switch_branch: nothing to do on the checked-out branch, else
\* git switch, or git switch -c when the branch does not exist locally.
release_git_switch_branch(branch_name) ==
    IF branch_name = cur THEN {Ok(Here)}
    ELSE IF branch_name \in DOMAIN local THEN git_switch(branch_name, Here)
    ELSE git_switch_create(branch_name, Here)

\* release.get_release_branch
get_release_branch(version) == <<"release", "v" \o version>>

PrTypes == {"fix", "doc", "bogus"}

\* git_switch_branch(c, ...) where release.py calls it: lines 42 and 47 of
\* assert_merge_test, 249 and 250 of create_pr, 163, 165, 175 and 180 of
\* release.
TaskSwitch ==
    \E s \in {<<"amt_switch_tmp", mt.tmp_head, "amt_trial">>,
              <<"amt_switch_base", mt.base, "amt_delete">>,
              <<"cp_switch_dev", dev_branch, "cp_switch_pr">>,
              <<"cp_switch_pr", flow.pr_branch, "cp_squash">>,
              <<"tr_switch_dev", dev_branch, "tr_pull_dev">>,
              <<"tr_switch_release", flow.release_branch, "tr_changelog">>,
              <<"tr_switch_main", main_branch, "tr_pull_main">>,
              <<"tr_switch_dev_back", dev_branch, "tr_merge">>} :
        /\ pc = s[1]
        /\ \E o \in release_git_switch_branch(s[2]) : Run(o, "switch", s[2], s[3])
        /\ GitFrame

\* c.run(f"git pull origin {...}"): line 41 of assert_merge_test, 164 and 176
\* of release.
TaskPull ==
    \E s \in {<<"amt_pull", mt.head, "amt_switch_tmp">>,
              <<"tr_pull_dev", dev_branch, "tr_switch_release">>,
              <<"tr_pull_main", main_branch, "tr_reset">>} :
        /\ pc = s[1]
        /\ \E o \in git_pull_origin(s[2], Here) : Run(o, "pull", s[2], s[3])
        /\ GitFrame

\* assert_no_uncommitted(c): line 246 of create_pr, 162 of release.
TaskAssert ==
    \E s \in {<<"cp_assert", "amt_switch_head">>, <<"tr_assert", "tr_switch_dev">>} :
        /\ pc = s[1]
        /\ AssertClean(s[2])

\* c.run(f"git branch -D {...}"), without warn=True: line 48 of
\* assert_merge_test, 182 of release.
TaskDelete ==
    \E s \in {<<"amt_delete", mt.tmp_head, "amt_decide">>,
              <<"tr_delete", flow.release_branch, "tr_push_dev">>} :
        /\ pc = s[1]
        /\ Run(IF can_delete(s[2], Here) THEN Ok(branch_delete(s[2], Here))
               ELSE Raise(Here),
               "delete", s[2], s[3])
        /\ GitFrame

\* git push of a branch: line 261 of create_pr, 183 of release.
TaskPush ==
    \E s \in {<<"cp_push", flow.pr_branch, "cp_gh_auth">>,
              <<"tr_push_dev", dev_branch, "done">>} :
        /\ pc = s[1]
        /\ Push(s[2], s[3])
        /\ UNCHANGED <<cur, local, merging, dirty, prs, tags, rtags, files, call, other,
                       nextChange, runs, flow, mt, sf, entry>>

\* input() returns what the operator typed: lines 159 and 169 of release.
TaskInput ==
    /\ pc \in {"tr_gate", "tr_confirm"}
    /\ \E a \in Answers : flow' = [flow EXCEPT !.answer = a]
    /\ pc' = IF pc = "tr_gate" THEN "tr_gate_read" ELSE "tr_confirm_read"
    /\ UNCHANGED <<cur, local, remote, merging, dirty, prs, tags, rtags, files, call, other,
                   nextChange, runs, exit_at, mt, sf, trace, entry>>

\* if input().strip().lower() != "y": ...; sys.exit(0), at lines 159 to 161
\* and 169 to 201 of release.
TaskGate ==
    /\ pc \in {"tr_gate_read", "tr_confirm_read"}
    /\ LET said == lower(strip(flow.answer))
           next == IF pc = "tr_gate_read" THEN "tr_assert" ELSE "tr_commit"
       IN /\ IF said # <<"y">>
             THEN Exit0
             ELSE pc' = next /\ exit_at' = exit_at
          /\ trace' = Append(trace, Ev("gate", said, said = <<"y">>))
    /\ flow' = [flow EXCEPT !.answer = <<>>]
    /\ UNCHANGED <<cur, local, remote, merging, dirty, prs, tags, rtags, files, call, other,
                   nextChange, runs, mt, sf, entry>>

(* release.assert_merge_test(base, head) *)

AmtSwitchHead ==
    /\ pc = "amt_switch_head"
    /\ \E o \in release_git_switch_branch(mt.head) : Run(o, "switch", mt.head, "amt_pull")
    /\ mt' = [mt EXCEPT !.pre = local]
    /\ UNCHANGED <<remote, dirty, prs, tags, rtags, files, call, other, nextChange, runs,
                   flow, sf, entry>>

AmtTrial ==
    /\ pc = "amt_trial"
    /\ \E r \in git_merge_no_commit(mt.base, Here) :
          /\ RunWarn(r, "trial_merge", mt.base, r.kind \in {"clean", "uptodate"},
                     "amt_abort")
          /\ mt' = [mt EXCEPT !.output = r.stdout \o r.stderr, !.kind = r.kind]
    /\ UNCHANGED <<remote, dirty, prs, tags, rtags, files, call, other, nextChange, runs,
                   flow, sf, entry>>

\* c.run("git merge --abort"), without warn=True: with no merge in progress
\* the command fails and the failure is raised.
AmtAbort ==
    /\ pc = "amt_abort"
    /\ Run(IF merging THEN Ok(git_merge_abort(Here)) ELSE Raise(Here),
           "merge_abort", <<>>, "amt_switch_base")
    /\ GitFrame

AmtDecide ==
    /\ pc = "amt_decide"
    /\ IF Contains(MERGE_MARKER, mt.output)
       THEN /\ pc' = mt.ret
            /\ exit_at' = exit_at
            /\ trace' = Append(trace, Ev("probe", mt.head, TRUE))
       ELSE /\ Exit1
            /\ trace' = Append(trace, Ev("probe", mt.head, FALSE))
    /\ UNCHANGED <<cur, local, remote, merging, dirty, prs, tags, rtags, files, call, other,
                   nextChange, runs, flow, mt, sf, entry>>

(* release.create_pr(type, title, version_type) *)

TaskCreatePr ==
    /\ Enter
    /\ \E type \in PrTypes, version_type \in Increments \cup {"bogus"} :
          LET valid == type \in {"fix", "feat", "doc", "refactor"}
          IN /\ flow' = [NoFlow EXCEPT
                           !.kind = "task_create_pr", !.task_type = type,
                           !.increment = version_type,
                           !.task_branch = IF valid THEN cur ELSE <<>>,
                           !.pr_branch = IF valid THEN get_pull_request_branch(cur)
                                         ELSE <<>>]
             /\ mt' = IF valid THEN MtCall(cur, dev_branch, "cp_switch_dev") ELSE mt
             /\ IF valid THEN pc' = "cp_assert" /\ exit_at' = exit_at ELSE Exit1
    /\ UNCHANGED <<cur, local, remote, merging, dirty, prs, tags, rtags, files, call, other,
                   nextChange, sf>>

CpSquash ==
    /\ pc = "cp_squash"
    /\ \E r \in git_merge_squash(flow.task_branch, Here) :
          /\ dirty' = IF r = "raised" THEN dirty ELSE TRUE
          /\ trace' = Append(trace, Ev("squash", flow.task_branch, r = "staged"))
          /\ pc' = IF r = "staged" THEN "cp_commit" ELSE "raised"
          /\ exit_at' = IF r = "staged" THEN exit_at ELSE pc
    /\ UNCHANGED <<cur, local, remote, merging, prs, tags, rtags, files, call, other,
                   nextChange, runs, flow, mt, sf, entry>>

\* git commit of the squashed tree; types fix and feat go on to the bump.
CpCommit ==
    /\ pc = "cp_commit"
    /\ \E ok \in (IF local[flow.task_branch] \subseteq local[cur]
                  THEN {FALSE} ELSE BOOLEAN) :
          /\ Run(IF ok THEN Ok([Here EXCEPT
                                  !.local[cur] = @ \cup local[flow.task_branch]])
                       ELSE Raise(Here),
                 "commit", cur,
                 IF flow.task_type \in {"fix", "feat"} THEN "cp_bump" ELSE "cp_ci")
          /\ dirty' = IF ok THEN FALSE ELSE dirty
    /\ UNCHANGED <<remote, prs, tags, rtags, files, call, other, nextChange, runs, flow,
                   mt, sf, entry>>

\* assert_version_type, get_new_version and bump_version of release.py: the
\* type is validated against poetry's types, then poetry version is run.
CpBump ==
    /\ pc = "cp_bump"
    /\ LET valid == assert_version_type(flow.increment, "poetry") = "ok"
       IN \E tool_ok \in BOOLEAN :
             /\ dirty' = (dirty \/ (valid /\ tool_ok))
             /\ trace' = IF valid
                         THEN trace \o <<Ev("validate", <<flow.increment>>, TRUE),
                                         Ev("bump", <<>>, tool_ok)>>
                         ELSE Append(trace, Ev("validate", <<flow.increment>>, FALSE))
             /\ IF ~valid THEN Exit1
                ELSE /\ pc' = IF tool_ok THEN "cp_commit_bump" ELSE "raised"
                     /\ exit_at' = IF tool_ok THEN exit_at ELSE pc
    /\ UNCHANGED <<cur, local, remote, merging, prs, tags, rtags, files, call, other,
                   nextChange, runs, flow, mt, sf, entry>>

\* git add pyproject.toml; git commit
CpCommitBump ==
    /\ pc = "cp_commit_bump"
    /\ \E o \in git_commit_bump(Here) :
          /\ Run(o, "commit", cur, "cp_ci")
          /\ dirty' = IF o.ok THEN FALSE ELSE dirty
    /\ UNCHANGED <<remote, prs, tags, rtags, files, call, other, nextChange, runs, flow,
                   mt, sf, entry>>

CpCi ==
    /\ pc = "cp_ci"
    /\ CiStep("cp_push")
    /\ UNCHANGED mt

\* release.assert_github_cli
CpGhAuth ==
    /\ pc = "cp_gh_auth"
    /\ \E authenticated \in BOOLEAN :
          /\ IF authenticated
             THEN pc' = "cp_create_pr" /\ exit_at' = exit_at
             ELSE Exit1
          /\ trace' = Append(trace, Ev("gh_auth", <<>>, authenticated))
    /\ UNCHANGED <<cur, local, remote, merging, dirty, prs, tags, rtags, files, call, other,
                   nextChange, runs, flow, mt, sf, entry>>

CpCreatePr ==
    /\ pc = "cp_create_pr"
    /\ \E o \in create_pr(flow.pr_branch, dev_branch) :
          /\ prs' = o.prs
          /\ trace' = Append(trace, Ev("pr_create", flow.pr_branch, o.ok))
          /\ pc' = IF o.ok THEN "done" ELSE "raised"
          /\ exit_at' = IF o.ok THEN exit_at ELSE pc
    /\ UNCHANGED <<cur, local, remote, merging, dirty, tags, rtags, files, call, other,
                   nextChange, runs, flow, mt, sf, entry>>

(* release.release() *)

TaskRelease ==
    /\ Enter
    /\ LET version == get_current_version(Here)
       IN flow' = [NoFlow EXCEPT !.kind = "task_release",
                                 !.new_version = "v" \o version,
                                 !.release_branch = get_release_branch(version)]
    /\ pc' = "tr_gate"
    /\ UNCHANGED <<cur, local, remote, merging, dirty, prs, tags, rtags, files, call, other,
                   nextChange, exit_at, mt, sf>>

\* git-cliff --tag {tag}; git add {change_log_file}
TrChangelog ==
    /\ pc = "tr_changelog"
    /\ \E ok \in BOOLEAN :
          /\ dirty' = (dirty \/ ok)
          /\ trace' = Append(trace, Ev("changelog", <<flow.new_version>>, ok))
          /\ pc' = IF ok THEN "tr_confirm" ELSE "raised"
          /\ exit_at' = IF ok THEN exit_at ELSE pc
    /\ UNCHANGED <<cur, local, remote, merging, prs, tags, rtags, files, call, other,
                   nextChange, runs, flow, mt, sf, entry>>

\* git commit; git-cliff; git add; git commit --amend
TrCommit ==
    /\ pc = "tr_commit"
    /\ \E ok \in (IF ChangelogChange \in local[cur] THEN {FALSE} ELSE BOOLEAN) :
          /\ Run(IF ok THEN Ok([Here EXCEPT !.local[cur] = @ \cup {ChangelogChange}])
                       ELSE Raise(Here),
                 "commit", cur, "tr_tag")
          /\ dirty' = IF ok THEN FALSE ELSE dirty
    /\ UNCHANGED <<remote, prs, tags, rtags, files, call, other, nextChange, runs, flow,
                   mt, sf, entry>>

\* git tag -a {tag}
TrTag ==
    /\ pc = "tr_tag"
    /\ LET o == git_tag(flow.new_version, Here)
       IN /\ tags' = o.tags
          /\ trace' = Append(trace, Ev("tag", <<flow.new_version>>, o.ok))
          /\ pc' = IF o.ok THEN "tr_switch_main" ELSE "raised"
          /\ exit_at' = IF o.ok THEN exit_at ELSE pc
    /\ UNCHANGED <<cur, local, remote, merging, dirty, prs, rtags, files, call, other,
                   nextChange, runs, flow, mt, sf, entry>>

\* git reset --hard {tag}
TrReset ==
    /\ pc = "tr_reset"
    /\ Run(Ok([Here EXCEPT !.local[cur] = tags[flow.new_version], !.merging = FALSE]),
           "reset", <<flow.new_version>>, "tr_push_main")
    /\ dirty' = FALSE
    /\ UNCHANGED <<remote, prs, tags, rtags, files, call, other, nextChange, runs, flow,
                   mt, sf, entry>>

\* git push --set-upstream origin main --force
TrPushMain ==
    /\ pc = "tr_push_main"
    /\ \E ok \in BOOLEAN :
          /\ remote' = IF ok THEN SetBranch(remote, main_branch, local[main_branch])
                       ELSE remote
          /\ trace' = Append(trace, Ev("push", main_branch, ok))
          /\ pc' = IF ok THEN "tr_push_tag" ELSE "raised"
          /\ exit_at' = IF ok THEN exit_at ELSE pc
    /\ UNCHANGED <<cur, local, merging, dirty, prs, tags, rtags, files, call, other,
                   nextChange, runs, flow, mt, sf, entry>>

\* git push origin {tag}
TrPushTag ==
    /\ pc = "tr_push_tag"
    /\ \E ok \in (IF /\ flow.new_version \in DOMAIN rtags
                     /\ rtags[flow.new_version] # tags[flow.new_version]
                  THEN {FALSE} ELSE BOOLEAN) :
          /\ rtags' = IF ok THEN (flow.new_version :> tags[flow.new_version]) @@ rtags
                      ELSE rtags
          /\ trace' = Append(trace, Ev("push", <<flow.new_version>>, ok))
          /\ pc' = IF ok THEN "tr_switch_dev_back" ELSE "raised"
          /\ exit_at' = IF ok THEN exit_at ELSE pc
    /\ UNCHANGED <<cur, local, remote, merging, dirty, prs, tags, files, call, other,
                   nextChange, runs, flow, mt, sf, entry>>

\* git merge {release_branch}
TrMerge ==
    /\ pc = "tr_merge"
    /\ \E o \in git_merge(flow.release_branch, Here) :
          Run(o, "merge", flow.release_branch, "tr_delete")
    /\ GitFrame

TaskNext ==
    \/ TaskSwitch \/ TaskPull \/ TaskAssert \/ TaskDelete \/ TaskPush
    \/ TaskInput \/ TaskGate
    \/ TaskCreatePr
    \/ AmtSwitchHead \/ AmtTrial \/ AmtAbort \/ AmtDecide
    \/ CpSquash \/ CpCommit \/ CpBump \/ CpCommitBump \/ CpCi \/ CpGhAuth \/ CpCreatePr
    \/ TaskRelease \/ TrChangelog \/ TrCommit \/ TrTag \/ TrReset \/ TrPushMain
    \/ TrPushTag \/ TrMerge
    \/ Return \/ UserCommit \/ RemoteCommit \/ UserEdit

TaskSpec == Init /\ [][TaskNext]_vars

-----------------------------------------------------------------------------
(* Observations of the ways an invocation ends *)

\* The last command or check of the invocation, when it has issued one.
LastOp == IF Len(trace) > 0 THEN trace[Len(trace)].op ELSE ""

LastFailed == Len(trace) > 0 /\ ~trace[Len(trace)].ok

\* The invocation ended on a failed check: an uncommitted-changes check, a
\* declined confirmation, a merge probe that found a conflict, a missing
\* hosting-CLI login, or a validation of its arguments at entry.
EndedOnFailedCheck ==
    /\ pc \in Terminal \ {"done", "raised"}
    /\ \/ LastFailed /\ LastOp \in {"status", "gate", "probe", "gh_auth", "validate",
                                   "tag_list"}
       \/ exit_at = "idle"

(* C27: every failure outcome that is a validation failure, a declined      *)
(* confirmation, a merge conflict or a missing artifact ends the process    *)
(* with exit status 1, never 0, in every task, the release task of          *)
(* tasks/release.py included.                                               *)
C27_FailuresExitOne == EndedOnFailedCheck => pc = "exit1"

\* The release task of tasks/release.py, left at its first confirmation.
C27_DeclinedExitsZero ==
    /\ flow.kind = "task_release"
    /\ pc = "exit0"
    /\ exit_at = "tr_gate_read"
    /\ LastOp = "gate"
    /\ LastFailed

(* C29: a failing git merge --abort (no merge in progress) does not stop    *)
(* the merge probe: the invocation never ends on the abort, in either       *)
(* implementation of the probe.                                             *)
C29_FailedAbortTolerated ==
    \A i \in AtOp("merge_abort") :
        ~trace[i].ok => ~(i = Len(trace) /\ pc \in Terminal)

\* release.assert_merge_test stopped by the abort, temp/dev still checked out.
C29_ProbeStoppedByAbort ==
    /\ flow.kind = "task_create_pr"
    /\ pc = "raised"
    /\ exit_at = "amt_abort"
    /\ mt.kind = "uptodate"
    /\ cur = mt.tmp_head
    /\ mt.tmp_head \in DOMAIN local

\* GitFlow.merge_test went on after an abort that failed.
C29_GitFlowProbeWentOn ==
    /\ flow.kind = "finish"
    /\ \E i \in AtOp("merge_abort") : ~trace[i].ok
    /\ AtOp("probe") # {}
    /\ mt.tmp_head \notin DOMAIN local

-----------------------------------------------------------------------------
(* Fail-fast *)

\* The invocation ended at its i-th command.
EndedAt(i) == i = Len(trace) /\ pc \in {"exit1", "raised"}

\* What merge_test still runs after its trial merge: the abort, the switch
\* back to base (with its fetch and pull), the deletion and the decision.
ProbeCleanup == {"merge_abort", "switch", "delete", "probe"}

-----------------------------------------------------------------------------
(* Two invocations of flow_finish against the same working tree *)

\* An invocation is a process of its own; the operating system may suspend
\* the running one between two of its commands and resume the other. The
\* repository, the working tree and the checked-out branch are shared; the
\* position and the locals of each invocation are its own.
InFlight(p) == p \notin {"idle"} \cup Terminal

MaxYields == 3

ContextSwitch ==
    /\ pc # "idle" \/ other.pc # "idle"
    /\ other.yields < MaxYields
    /\ pc' = other.pc
    /\ exit_at' = other.exit_at
    /\ flow' = other.flow
    /\ mt' = other.mt
    /\ sf' = other.sf
    /\ trace' = other.trace
    /\ entry' = other.entry
    /\ other' = [pc |-> pc, exit_at |-> exit_at, flow |-> flow, mt |-> mt, sf |-> sf,
                 trace |-> trace, entry |-> entry,
                 overlap |-> (other.overlap \/ InFlight(pc)),
                 yields |-> other.yields + 1]
    /\ UNCHANGED <<cur, local, remote, merging, dirty, prs, tags, rtags, files, call,
                   nextChange, runs>>

\* A clone of origin in which the feature "login" has one commit.
ConcInit ==
    /\ cur = get_feature_branch_name(<<"login">>)
    /\ local = (dev_branch :> {}) @@ (main_branch :> {})
               @@ (get_feature_branch_name(<<"login">>) :> {1})
    /\ remote = (dev_branch :> {}) @@ (main_branch :> {})
    /\ merging = FALSE
    /\ dirty = FALSE
    /\ prs = {}
    /\ tags = <<>>
    /\ rtags = <<>>
    /\ files = NoFiles
    /\ call = NoCall
    /\ other = NoOther
    /\ nextChange = 2
    /\ runs = 0
    /\ pc = "idle"
    /\ exit_at = ""
    /\ flow = NoFlow
    /\ mt = NoMt
    /\ sf = NoSf
    /\ trace = <<>>
    /\ entry = NoEntry

ConcNext ==
    \/ FlowFinish
    \/ MtSwitchHead \/ MtPull \/ MtSwitchTmp \/ MtTrial \/ MtAbort
    \/ MtSwitchBase \/ MtDelete \/ MtDecide
    \/ SfAssert \/ SfSwitchBase \/ SfPull \/ SfSwitchNew
    \/ FfCheck \/ FfMergeTask \/ FfCi \/ FfSwitchDev \/ FfMergePr \/ FfPushDev
    \/ FfPushPr \/ FfGhAuth \/ FfCreatePr \/ FfDeletePr \/ FfDeleteTask
    \/ Return \/ ContextSwitch

ConcSpec == ConcInit /\ [][ConcNext]_vars

\* The switches the running invocation has made, and the branch of the last.
SwitchesOk == {i \in AtOp("switch") : trace[i].ok}

LastSwitched ==
    trace[CHOOSE i \in SwitchesOk : \A j \in SwitchesOk : j <= i].arg

\* The running invocation is at a merge or at a branch deletion.
AtMutating ==
    pc \in {"mt_trial", "ff_merge_task", "ff_merge_pr", "mt_delete", "ff_delete_pr",
            "ff_delete_task"}

(* C30: the controller does not defend against concurrent invocation. As    *)
(* long as no invocation has been suspended between two of its commands     *)
(* (invocations run one at a time), an invocation that is at a merge or at  *)
(* a branch deletion has the branch it last switched to checked out; with   *)
(* two invocations interleaved the witness is reachable.                    *)
C30_AloneOnLastSwitched ==
    (~other.overlap /\ AtMutating) => (SwitchesOk # {} /\ cur = LastSwitched)

\* Two interleaved flow_finish runs: the running one is at a merge or a
\* deletion while the branch checked out is not the one it last switched to.
C30_Witness ==
    /\ other.overlap
    /\ flow.kind = "finish"
    /\ other.flow.kind = "finish"
    /\ InFlight(other.pc)
    /\ AtMutating
    /\ SwitchesOk # {}
    /\ cur # LastSwitched

\* The two probes share temp/dev: one runs its trial merge on the branch the
\* other has just switched to.
C30_WitnessSharedTemp ==
    /\ other.overlap
    /\ pc = "mt_trial"
    /\ other.mt.tmp_head = mt.tmp_head
    /\ InFlight(other.pc)
    /\ cur # mt.tmp_head

-----------------------------------------------------------------------------
(* flow_release_create_pr on its own, invoked once or again after an        *)
(* earlier invocation, origin moving before the first invocation and while  *)
(* the flow waits at its gate.                                              *)

PrNext ==
    \/ FlowReleasePr \/ RpAssert \/ RpPull
    \/ RelSwitch \/ RelBump \/ RelCommit \/ RelInput \/ RelGate
    \/ RpSwitchMain \/ RpPullMain \/ RpSwitchTmp \/ RpMergeRelease \/ RpCi
    \/ RpSwitchRelease \/ RpPush \/ RpGhAuth \/ RpCreatePr \/ RpSwitchDev
    \/ RpDeleteTmp \/ RpDeleteRelease
    \/ Return \/ OriginCommit \/ UserEdit \/ UserSwitch \/ UserMergeAbort

PrSpec == RelInit /\ [][PrNext]_vars

ReleasePrDone == flow.kind = "release_pr" /\ pc = "done"

(* C31: when flow_release_create_pr completes, dev is checked out, the      *)
(* temporary branch temp_<version>/main and the local release branch are    *)
(* gone, the release branch has been pushed and is on origin, a pull        *)
(* request from it into main is open, and local main holds nothing but what *)
(* it held at entry and what it pulled from origin: the release was merged  *)
(* on the temporary branch only.                                            *)
C31_ReleasePrCompleted ==
    ReleasePrDone =>
        /\ cur = dev_branch
        /\ flow.tmp_main_branch \notin DOMAIN local
        /\ flow.release_branch \notin DOMAIN local
        /\ AtOk("push", flow.release_branch) # {}
        /\ flow.release_branch \in DOMAIN remote
        /\ [head |-> flow.release_branch, base |-> main_branch] \in prs
        /\ main_branch \in DOMAIN local
        /\ local[main_branch] \subseteq entry.local[main_branch] \cup remote[main_branch]
        /\ AtOk("ci", <<>>) # {}

\* A release pull request was opened after main had moved on origin: local
\* main was updated by the pull and by nothing else.
C31_Witness ==
    /\ ReleasePrDone
    /\ local[main_branch] # entry.local[main_branch]
    /\ \E x \in remote[flow.release_branch] : x < 0

\* ---------------------------------------------------------------------
\* src/template/config.py: the YAML-backed configuration object.
\* In this specification `files` is the world outside the object (the
\* configuration file and the process environment) and `call` is the
\* Config object together with the snapshots taken when init() is entered.
\* ---------------------------------------------------------------------

ConfigFields == <<"logs_dir", "log_level">>

DefaultValue(f) == IF f = "logs_dir" THEN "~/.local/state/template/log" ELSE "INFO"

\* Environment values of TEMPLATE_<FIELD>; "" is a variable set to nothing.
EnvValues == {"", "DEBUG"}

Environments ==
    UNION {[S -> EnvValues] : S \in SUBSET {"logs_dir", "log_level"}}

\* One line of a YAML document: a key with a scalar, or a line that is not
\* YAML at all.
YamlLine(key, type, v) == [key |-> key, type |-> type, v |-> v]

YamlLines ==
    {YamlLine("log_level", "str", "WARNING"), YamlLine("log_level", "int", "5"),
     YamlLine("logs_dir", "str", "/var/log"), YamlLine("verbose", "bool", "true"),
     YamlLine("", "junk", "")}

ConfigDocs == UNION {[1..n -> YamlLines] : n \in 0..MaxLines}

ConfigWorlds ==
    {[exists |-> e, text |-> t, env |-> v] :
        e \in BOOLEAN, t \in ConfigDocs, v \in Environments} \
    {w \in [exists : {FALSE}, text : ConfigDocs, env : Environments] : w.text # <<>>}

ConfigError == [ok |-> FALSE, model |-> [logs_dir |-> "", log_level |-> ""]]

\* ConfigModel(**kwargs): pydantic settings. Init arguments win over the
\* environment, the environment (empty values ignored) over the defaults;
\* an unknown key or a non-string value fails validation.
ConfigModel(kwargs, env) ==
    IF \E k \in DOMAIN kwargs :
           \/ \A i \in DOMAIN ConfigFields : ConfigFields[i] # k
           \/ kwargs[k].type # "str"
    THEN ConfigError
    ELSE [ok |-> TRUE,
          model |-> [f \in {"logs_dir", "log_level"} |->
                        IF f \in DOMAIN kwargs THEN kwargs[f].v
                        ELSE IF f \in DOMAIN env /\ env[f] # "" THEN env[f]
                        ELSE DefaultValue(f)]]

\* to_yaml_str(model): every field, in declaration order, as a string scalar.
to_yaml_str(model) ==
    [i \in DOMAIN ConfigFields |->
        YamlLine(ConfigFields[i], "str", model[ConfigFields[i]])]

\* parse_yaml_file_as(ConfigModel, file): the loader rejects a missing file,
\* a line that is not YAML and a repeated key; an empty document is not a
\* mapping; the mapping becomes the init arguments of ConfigModel.
parse_yaml_file_as(world) ==
    IF \/ ~world.exists
       \/ world.text = <<>>
       \/ \E i \in DOMAIN world.text : world.text[i].type = "junk"
       \/ \E i, j \in DOMAIN world.text : i # j /\ world.text[i].key = world.text[j].key
    THEN ConfigError
    ELSE ConfigModel(
             [k \in {world.text[i].key : i \in DOMAIN world.text} |->
                 LET i == CHOOSE i \in DOMAIN world.text : world.text[i].key = k
                 IN  world.text[i]],
             world.env)

NoConfig ==
    [fn |-> "Config", model |-> [logs_dir |-> "", log_level |-> ""],
     at_entry |-> [exists |-> FALSE, text |-> <<>>],
     model_at_entry |-> [logs_dir |-> "", log_level |-> ""]]

ConfigFrame ==
    UNCHANGED <<cur, local, remote, merging, dirty, prs, tags, rtags, other,
                nextChange, exit_at, flow, mt, sf, entry>>

ConfigInit ==
    /\ cur = dev_branch
    /\ local = (dev_branch :> {})
    /\ remote = (dev_branch :> {})
    /\ merging = FALSE
    /\ dirty = FALSE
    /\ prs = {}
    /\ tags = {}
    /\ rtags = {}
    /\ other = NoOther
    /\ nextChange = 1
    /\ runs = 0
    /\ exit_at = ""
    /\ flow = NoFlow
    /\ mt = NoMt
    /\ sf = NoSf
    /\ trace = <<>>
    /\ entry = NoEntry
    /\ files \in ConfigWorlds
    /\ call = NoConfig
    /\ pc = "cfg_new"

\* Config.__init__: the model starts as ConfigModel().
ConfigNew ==
    /\ pc = "cfg_new"
    /\ call' = [call EXCEPT !.model = ConfigModel(<<>>, files.env).model]
    /\ pc' = "cfg_ready"
    /\ UNCHANGED <<files, runs, trace>>
    /\ ConfigFrame

\* Variant: init() saves the model whether or not the file exists.
CfgExistsAlwaysSaves ==
    /\ pc = "cfg_ready"
    /\ runs < MaxRuns
    /\ runs' = runs + 1
    /\ call' = [call EXCEPT
                   !.at_entry = [exists |-> files.exists, text |-> files.text],
                   !.model_at_entry = call.model,
                   !.model = ConfigModel(<<>>, files.env).model]
    /\ pc' = "cfg_save"
    /\ UNCHANGED <<files, trace>>
    /\ ConfigFrame

\* init(), the test on the file: a missing file resets the model and goes
\* on to save it, an existing one goes straight to the load.
CfgExists ==
    /\ pc = "cfg_ready"
    /\ runs < MaxRuns
    /\ runs' = runs + 1
    /\ call' = [call EXCEPT
                   !.at_entry = [exists |-> files.exists, text |-> files.text],
                   !.model_at_entry = call.model,
                   !.model = IF files.exists THEN call.model
                             ELSE ConfigModel(<<>>, files.env).model]
    /\ pc' = IF files.exists THEN "cfg_load" ELSE "cfg_save"
    /\ UNCHANGED <<files, trace>>
    /\ ConfigFrame

\* _save_config: mkdir, then write_text; a failed write leaves no file or
\* an empty one.
CfgSave ==
    /\ pc = "cfg_save"
    /\ \/ /\ files' = [files EXCEPT !.exists = TRUE, !.text = to_yaml_str(call.model)]
          /\ pc' = "cfg_load"
          /\ UNCHANGED trace
       \/ /\ files' \in {files, [files EXCEPT !.exists = TRUE, !.text = <<>>]}
          /\ pc' = "cfg_raised"
          /\ trace' = Append(trace, Ev("init", <<>>, FALSE))
    /\ UNCHANGED <<call, runs>>
    /\ ConfigFrame

\* _load_config and the assignment that ends init().
CfgLoad ==
    /\ pc = "cfg_load"
    /\ LET r == parse_yaml_file_as(files)
       IN  /\ call' = [call EXCEPT !.model = IF r.ok THEN r.model ELSE call.model]
           /\ pc' = IF r.ok THEN "cfg_ready" ELSE "cfg_raised"
           /\ trace' = Append(trace, Ev("init", <<>>, r.ok))
    /\ UNCHANGED <<files, runs>>
    /\ ConfigFrame

\* The caller catches the exception; the object lives on.
CfgCaught ==
    /\ pc = "cfg_raised"
    /\ pc' = "cfg_ready"
    /\ UNCHANGED <<files, call, runs, trace>>
    /\ ConfigFrame

\* Between two calls the world changes: the file is removed, a line is
\* added to it or taken from it, or the environment is set differently.
OutsideChange ==
    /\ pc = "cfg_ready"
    /\ trace # <<>>
    /\ LastOp # "outside"
    /\ \/ files.exists /\ files' = [files EXCEPT !.exists = FALSE, !.text = <<>>]
       \/ /\ Len(files.text) < MaxLines
          /\ \E l \in YamlLines :
                 files' = [files EXCEPT !.exists = TRUE, !.text = Append(files.text, l)]
       \/ /\ files.text # <<>>
          /\ files' = [files EXCEPT !.text = Tail(files.text)]
       \/ \E v \in Environments \ {files.env} : files' = [files EXCEPT !.env = v]
    /\ trace' = Append(trace, Ev("outside", <<>>, TRUE))
    /\ UNCHANGED <<call, runs, pc>>
    /\ ConfigFrame

ConfigNext ==
    \/ ConfigNew \/ CfgExists \/ CfgSave \/ CfgLoad \/ CfgCaught \/ OutsideChange

ConfigSpec == ConfigInit /\ [][ConfigNext]_vars

InitReturned ==
    /\ pc = "cfg_ready"
    /\ trace # <<>>
    /\ trace[Len(trace)] = Ev("init", <<>>, TRUE)

\* C32: when init() has returned, the configuration file exists and the
\* model in memory is the one parsed from it; a file that was missing has
\* been written from the default model, a file that was there is left as it
\* was; and an init() that follows a returned init() directly leaves both
\* the file and the model as they were.
C32_InitLoadsFile ==
    InitReturned =>
        /\ files.exists
        /\ parse_yaml_file_as(files).ok
        /\ call.model = parse_yaml_file_as(files).model
        /\ ~call.at_entry.exists =>
               files.text = to_yaml_str(ConfigModel(<<>>, files.env).model)
        /\ call.at_entry.exists => files.text = call.at_entry.text
        /\ (Len(trace) >= 2 /\ trace[Len(trace) - 1] = Ev("init", <<>>, TRUE)) =>
               /\ call.at_entry = [exists |-> TRUE, text |-> files.text]
               /\ call.model = call.model_at_entry

\* A second init() has returned on a file the first one created.
C32_Witness ==
    /\ InitReturned
    /\ Len(trace) = 2
    /\ trace[1] = Ev("init", <<>>, TRUE)
    /\ files.text = to_yaml_str(ConfigModel(<<>>, files.env).model)
    /\ call.model.log_level = "DEBUG"

\* init() has returned on a file that was already there and sets one field.
C32_WitnessExisting ==
    /\ InitReturned
    /\ call.at_entry.exists
    /\ Len(files.text) = 1
    /\ call.model.logs_dir = "/var/log"
    /\ call.model.log_level = "DEBUG"

\* ---------------------------------------------------------------------
\* flow_release_finish on its own, started in any repository a release
\* can have left behind: the release commit may or may not be on dev and
\* main, the tag may be missing, stale on origin, or in place.
\* ---------------------------------------------------------------------

FinCommits == SUBSET {0 - 1, 1}

FinTags ==
    {<<>>} \cup {("v0.1.1" :> c) : c \in {x \in FinCommits : (0 - 1) \in x}}

FinInit ==
    /\ cur \in {dev_branch, main_branch}
    /\ \E d, m \in FinCommits : local = (dev_branch :> d) @@ (main_branch :> m)
    /\ remote = (dev_branch :> {}) @@ (main_branch :> {})
    /\ merging = FALSE
    /\ dirty \in BOOLEAN
    /\ prs = {}
    /\ tags \in FinTags
    /\ rtags \in {<<>>, ("v0.1.1" :> {0 - 1})}
    /\ files = NoFiles
    /\ call = NoCall
    /\ other = NoOther
    /\ nextChange = 2
    /\ runs = 0
    /\ pc = "idle"
    /\ exit_at = ""
    /\ flow = NoFlow
    /\ mt = NoMt
    /\ sf = NoSf
    /\ trace = <<>>
    /\ entry = NoEntry

FinNext ==
    \/ FlowReleaseFinish \/ RfAssert \/ RfTagList \/ RfPushDev \/ RfPushMain
    \/ Return \/ OriginCommit \/ UserEdit \/ UserSwitch

FinSpec == FinInit /\ [][FinNext]_vars

InFinish == flow.kind = "release_finish"

CurrentTag == "v" \o get_current_version(Here)

\* C33: flow_release_finish attempts a push only when the working tree is
\* clean and the tag v<current version> exists locally; when either check
\* fails the invocation can only end with exit status 1, reached at that
\* check, and neither a branch nor a tag on origin has changed.
C33_PushOnlyWhenCleanAndTagged ==
    InFinish =>
        /\ AtOp("push") # {} => ~has_uncommitted /\ CurrentTag \in DOMAIN tags
        /\ (has_uncommitted \/ CurrentTag \notin DOMAIN tags) =>
               /\ pc \in {"rf_assert", "rf_tag_list", "exit1"}
               /\ pc = "rf_tag_list" => ~has_uncommitted
               /\ pc = "exit1" =>
                      exit_at = (IF has_uncommitted THEN "rf_assert" ELSE "rf_tag_list")
               /\ AtOp("push") = {}
               /\ remote = entry.remote
               /\ rtags = entry.rtags

\* The tree is clean but the tag of the current version is missing while
\* another commit carries changes origin lacks: exit 1, nothing pushed.
C33_Witness ==
    /\ InFinish
    /\ pc = "exit1"
    /\ ~has_uncommitted
    /\ CurrentTag \notin DOMAIN tags
    /\ local[dev_branch] # remote[dev_branch]

\* The tree is dirty although the tag exists: exit 1 at the first check.
C33_WitnessDirty ==
    /\ InFinish
    /\ pc = "exit1"
    /\ has_uncommitted
    /\ CurrentTag \in DOMAIN tags

\* C34: flow_release_finish pushes dev first, in a push of its own, and
\* then main with the tag in one atomic push: main on origin moves exactly
\* when the tag arrives there, and when the second push fails dev stays
\* pushed.
C34_DevThenMainWithTag ==
    InFinish =>
        /\ \A i \in At("push", main_branch) : \E j \in AtOk("push", dev_branch) : j < i
        /\ \A i \in At("push", dev_branch) : i = 3
        /\ \A i \in At("push", main_branch) : i = 4
        /\ AtOk("push", dev_branch) # {} =>
               /\ remote[dev_branch] = local[dev_branch]
               /\ pc = "rf_push_main" => remote[main_branch] = entry.remote[main_branch]
                                         /\ rtags = entry.rtags
        /\ AtOk("push", main_branch) # {} =>
               /\ remote[main_branch] = local[main_branch]
               /\ CurrentTag \in DOMAIN rtags
               /\ rtags[CurrentTag] = tags[CurrentTag]
        /\ AtOk("push", main_branch) = {} =>
               /\ remote[main_branch] = entry.remote[main_branch]
               /\ rtags = entry.rtags

\* The second push was refused after the first one moved dev on origin.
C34_Witness ==
    /\ InFinish
    /\ pc = "raised"
    /\ exit_at = "rf_push_main"
    /\ remote[dev_branch] # entry.remote[dev_branch]
    /\ local[main_branch] # remote[main_branch]

\* Both pushes went through: dev, main and the tag are on origin.
C34_WitnessPublished ==
    /\ InFinish
    /\ pc = "done"
    /\ remote[main_branch] # entry.remote[main_branch]
    /\ rtags # entry.rtags

\* ---------------------------------------------------------------------
\* flow_finish on its own: the task branch exists from the start and no
\* other flow runs, so every branch besides dev, main and the task branch
\* was left by an earlier flow_finish.
\* ---------------------------------------------------------------------

\* Between two invocations somebody else pushes a commit to origin's dev.
TeamPush ==
    /\ pc = "idle"
    /\ runs > 0
    /\ nextChange <= NChanges
    /\ remote' = [remote EXCEPT ![dev_branch] = @ \cup {nextChange}]
    /\ nextChange' = nextChange + 1
    /\ UNCHANGED <<runs, cur, local, merging, dirty, prs, tags, rtags, files, call, other,
                   pc, exit_at, flow, mt, sf, trace, entry>>

FinishNext ==
    \/ FlowFinish
    \/ MtSwitchHead \/ MtPull \/ MtSwitchTmp \/ MtTrial \/ MtAbort
    \/ MtSwitchBase \/ MtDelete \/ MtDecide
    \/ SfAssert \/ SfSwitchBase \/ SfPull \/ SfSwitchNew
    \/ FfCheck \/ FfMergeTask \/ FfCi \/ FfSwitchDev \/ FfMergePr \/ FfPushDev
    \/ FfPushPr \/ FfGhAuth \/ FfCreatePr \/ FfDeletePr \/ FfDeleteTask
    \/ Return \/ UserCommit \/ RemoteCommit \/ TeamPush \/ UserEdit \/ UserSwitch

FinishSpec == Init /\ [][FinishNext]_vars

InFlowFinish == flow.kind = "finish"

MatchingPrefix ==
    \/ flow.task_type = "feature" /\ StartsWith(flow.task_branch, branch_prefix_feature)
    \/ flow.task_type = "fix" /\ StartsWith(flow.task_branch, branch_prefix_bugfix)

\* C35: a flow_finish whose task_type is neither feature nor fix, or whose
\* current branch lacks the prefix of its task_type, has exit status 1 and
\* has run no git command: no branch, local or on origin, was created,
\* moved or switched to.
C35_RejectedBeforeGit ==
    (InFlowFinish /\ ~MatchingPrefix) =>
        /\ pc = "exit1"
        /\ trace = <<>>
        /\ cur = entry.cur
        /\ local = entry.local
        /\ remote = entry.remote
        /\ prs = entry.prs

\* flow_finish --type fix on a feature branch, rejected.
C35_Witness ==
    /\ InFlowFinish
    /\ flow.task_type = "fix"
    /\ is_feature_branch(flow.task_branch)
    /\ pc = "exit1"

\* flow_finish --type feature on dev, and with an unknown type, rejected.
C35_WitnessOnDev ==
    /\ InFlowFinish
    /\ flow.task_type \in {"feature", "chore"}
    /\ flow.task_branch = dev_branch
    /\ pc = "exit1"

\* The tree held uncommitted changes when this flow_finish was invoked:
\* only the CI step of a flow touches the working tree.
DirtyAtEntry == InFlowFinish /\ MatchingPrefix /\ dirty /\ AtOp("ci") = {}

\* C36: a flow_finish invoked with uncommitted changes has exit status 1
\* and has neither switched branches nor created one.
C36_DirtyRejectedFirst ==
    DirtyAtEntry =>
        /\ pc \in Terminal => pc = "exit1"
        /\ AtOp("switch") = {}
        /\ cur = entry.cur
        /\ DOMAIN local = DOMAIN entry.local

\* With uncommitted changes the merge probe has run to its end, temp/dev
\* was created and deleted again, and only then does switch_from reject.
C36_ProbeRanDirty ==
    /\ DirtyAtEntry
    /\ pc = "exit1"
    /\ exit_at = "sf_assert"
    /\ At("switch", mt.tmp_head) # {}
    /\ At("delete", mt.tmp_head) # {}

MergingTask == InFlowFinish /\ pc = "ff_merge_task"

\* C37: when flow_finish is about to merge the task branch into
\* pr/<task-branch>, that branch was created in this invocation and
\* points at dev's current tip.
C37_PrBranchFresh ==
    MergingTask =>
        /\ flow.pr_branch \notin DOMAIN entry.local
        /\ local[flow.pr_branch] = local[dev_branch]

\* A flow_finish that aborted at CI left pr/<task-branch> behind with the
\* task's changes; the next one is about to merge into that same branch.
C37_StalePrBranchReused ==
    /\ MergingTask
    /\ flow.pr_branch \in DOMAIN entry.local
    /\ local[flow.pr_branch] # local[dev_branch]
    /\ AtOk("switch", flow.pr_branch) # {}

\* With no pr/<task-branch> left behind, locally or on origin, the branch
\* is new and equal to dev.
C37_FreshWithoutLeftover ==
    (MergingTask /\ flow.pr_branch \notin DOMAIN entry.local
                 /\ flow.pr_branch \notin DOMAIN entry.remote) =>
        local[flow.pr_branch] = local[dev_branch]

ProbeAtTrial == pc = "mt_trial"

\* C38: when merge_test is about to run the trial merge, temp/<head> is
\* checked out and points at the tip of head, which holds everything
\* origin's head held when it was pulled.
C38_ProbeBranchFresh ==
    ProbeAtTrial =>
        /\ cur = mt.tmp_head
        /\ local[mt.tmp_head] = local[mt.head]

\* An interrupted probe left temp/dev behind, origin's dev moved on, and
\* the next probe runs its trial merge on the old temp/dev.
C38_StaleProbeBranchReused ==
    /\ ProbeAtTrial
    /\ InFlowFinish
    /\ mt.tmp_head \in DOMAIN entry.local
    /\ local[mt.tmp_head] # local[mt.head]
    /\ \E x \in local[mt.head] : x \notin local[mt.tmp_head]

\* With no temp/<head> left behind the probe branch equals head.
C38_FreshWithoutLeftover ==
    (ProbeAtTrial /\ InFlowFinish /\ mt.tmp_head \notin DOMAIN entry.local) =>
        /\ cur = mt.tmp_head
        /\ local[mt.tmp_head] = local[mt.head]

\* ---------------------------------------------------------------------
\* ci.dev_ci command by command. `files` is what the spell check does to
\* tmp_changelog.md (in the working tree, in the index), `dirty` is what
\* was uncommitted before CI started.
\* ---------------------------------------------------------------------

NoTmp == [tmp_exists |-> FALSE, tmp_staged |-> FALSE]

\* git status --porcelain prints something
status_porcelain == dirty \/ files.tmp_exists \/ files.tmp_staged

CiFrame ==
    UNCHANGED <<cur, local, remote, merging, dirty, prs, tags, rtags, other,
                nextChange, flow, mt, sf, entry>>

CiInit ==
    /\ cur = dev_branch
    /\ local = (dev_branch :> {})
    /\ remote = (dev_branch :> {})
    /\ merging = FALSE
    /\ dirty \in BOOLEAN
    /\ prs = {}
    /\ tags = <<>>
    /\ rtags = <<>>
    /\ other = NoOther
    /\ nextChange = 1
    /\ runs = 0
    /\ exit_at = ""
    /\ flow = NoFlow
    /\ mt = NoMt
    /\ sf = NoSf
    /\ trace = <<>>
    /\ entry = NoEntry
    /\ files = NoTmp
    /\ call = [fn |-> "none", clean_at_entry |-> TRUE]
    /\ pc = "idle"

\* dev_ci is entered; its first task is the spell check.
DevCi ==
    /\ pc = "idle"
    /\ runs < MaxRuns
    /\ runs' = runs + 1
    /\ call' = [fn |-> "dev_ci", clean_at_entry |-> ~status_porcelain]
    /\ trace' = <<>>
    /\ pc' = "sc_changelog"
    /\ UNCHANGED <<files, exit_at>>
    /\ CiFrame

\* One command of a CI task: it succeeds with its effect on
\* tmp_changelog.md, or c.run raises and the task stops where it is.
CiCommand(op, effect, next) ==
    \E ok \in BOOLEAN :
        /\ files' = IF ok THEN effect ELSE files
        /\ trace' = Append(trace, Ev(op, <<>>, ok))
        /\ pc' = IF ok THEN next ELSE "raised"
        /\ exit_at' = IF ok THEN exit_at ELSE pc
        /\ UNCHANGED <<call, runs>>
        /\ CiFrame

\* pre_commit.spell_check_commit_msg: cz changelog, git add, typos,
\* codespell, git reset, rm.
SpellCheck ==
    \E s \in {<<"sc_changelog", "changelog", [files EXCEPT !.tmp_exists = TRUE], "sc_add">>,
              <<"sc_add", "add", [files EXCEPT !.tmp_staged = TRUE], "sc_typos">>,
              <<"sc_typos", "typos", files, "sc_codespell">>,
              <<"sc_codespell", "codespell", files, "sc_reset">>,
              <<"sc_reset", "reset", [files EXCEPT !.tmp_staged = FALSE], "sc_rm">>,
              <<"sc_rm", "rm", [files EXCEPT !.tmp_exists = FALSE], "ci_pre_commit">>} :
        /\ pc = s[1]
        /\ CiCommand(s[2], s[3], s[4])

\* The other tasks of dev_ci: pre-commit hooks, docs, static checks, unit
\* tests.
CiChecks ==
    \E s \in {<<"ci_pre_commit", "pre_commit", "ci_docs">>,
              <<"ci_docs", "docs", "ci_static">>,
              <<"ci_static", "test_static", "ci_unit">>,
              <<"ci_unit", "test_unit", "done">>} :
        /\ pc = s[1]
        /\ CiCommand(s[2], files, s[3])

\* The flow is run again after CI ended: its assert_no_uncommitted.
CiRerunAssert ==
    /\ pc \in {"done", "raised"}
    /\ trace' = Append(trace, Ev("status", <<>>, ~status_porcelain))
    /\ pc' = IF status_porcelain THEN "exit1" ELSE "idle"
    /\ exit_at' = IF status_porcelain THEN "rerun" ELSE ""
    /\ UNCHANGED <<files, call, runs>>
    /\ CiFrame

\* The user unstages and removes what was left, and starts over.
CiUserCleans ==
    /\ pc = "exit1"
    /\ files' = NoTmp
    /\ pc' = "idle"
    /\ exit_at' = ""
    /\ UNCHANGED <<call, runs, trace>>
    /\ CiFrame

CiNext ==
    \/ DevCi \/ SpellCheck \/ CiChecks \/ CiRerunAssert \/ CiUserCleans

CiSpec == CiInit /\ [][CiNext]_vars

CiEnded == call.fn = "dev_ci" /\ pc \in {"done", "raised"} /\ LastOp # "status"

\* C39: when dev_ci has ended, by success or by a failing check,
\* tmp_changelog.md is neither in the working tree nor in the index, and
\* a tree that was clean before CI is not rejected by the
\* assert_no_uncommitted of the next flow.
C39_CiLeavesNothing ==
    /\ CiEnded => ~files.tmp_exists /\ ~files.tmp_staged
    /\ (call.fn = "dev_ci" /\ pc = "exit1") => ~call.clean_at_entry

\* typos found a misspelling: CI stopped with tmp_changelog.md staged and
\* the re-run was rejected although the tree was clean before CI.
C39_RerunRejectedByLeftover ==
    /\ call.fn = "dev_ci"
    /\ pc = "exit1"
    /\ call.clean_at_entry
    /\ files.tmp_staged
    /\ At("typos", <<>>) # AtOk("typos", <<>>)

\* A dev_ci in which every command succeeded leaves nothing behind.
C39_CleanAfterSuccess ==
    (call.fn = "dev_ci" /\ pc = "done") => files = NoTmp

ReadmeStep == pc \in {"urv", "bv_readme"}

\* C40: a call of update_readme_version that fails leaves the README as
\* it was: the same content, and still absent when it was absent.
C40_FailedUpdateKeepsReadme ==
    [][(ReadmeStep /\ pc' # "done") =>
           /\ pc' = "exit1"
           /\ files'.readme = files.readme
           /\ files'.readme_exists = files.readme_exists]_vars

\* The call failed on a README that has text but no marker line.
C40_Witness ==
    /\ call.fn = "update_readme_version"
    /\ pc = "exit1"
    /\ files.readme_exists
    /\ files.readme # <<>>
    /\ ~HasMarker(files)

\* The call failed because there is no README, and none was created.
C40_WitnessAbsent ==
    /\ call.fn = "update_readme_version"
    /\ pc = "exit1"
    /\ ~files.readme_exists

====
